---- MODULE Spec2Model ----
(***************************************************************************)
(* A model of the Alconna analyser engine: the token stream of the         *)
(* analysis/ analyser, the Args / Option handlers of _internal/, and the   *)
(* option merging rules.  Strings are sequences of one-character strings,  *)
(* so that splitting, prefix matching and re-joining are computed.         *)
(***************************************************************************)
EXTENDS Integers, Sequences, FiniteSets, TLC

VARIABLES
    analyser,   \* the analysis/ Analyser object: raw_data, indices, ndata, temporary_data
    last,       \* what the last operation was, what it was given and what it returned
    sub,        \* analysis/parts.analyse_subcommand: its position and its locals
    argv,       \* the _internal/ Argv object: raw_data, current_index, ndata
    prs,        \* the _internal/ SubAnalyser: its results; what its last step was given,
                \* did to the stream (log) and matched (occ); the options matched so far
    hdr,        \* the header analysis: the Header, the stream it was given, what
                \* analyse_header returned or raised
    sc,         \* the shortcuts of one command: the two tables of the manager, what the
                \* last operation was given and returned, the rewritten token stream
    mgr,        \* the registry of the manager: commands, Argv table, analyser table, current_count
    spl,        \* util.split and split_once: the text given, the tokens, what the stream released
    cmp,        \* the completion: comp_ctx, what handle_completion was given, raised, sent and returned
    sis,        \* sistana: the snapshot and the buffer of a loopflow, what its last turn read and did
    lru,        \* util.LruCache: the cache, the record table and the size; the last call; the calls of the threads
    bhv,        \* the behavior pass: the values of the parse result by path, what operate was given and raised
    cpt,        \* analyse_compact_params: the params left to try, the results of the analyser, what the last attempt did
    alc         \* core.Alconna: its options, its namespace, the options the user gave it, what the last call was

vars == <<analyser, last, sub, argv, prs, hdr, sc, mgr, spl, cmp, sis, lru, bhv, cpt, alc>>

(***************************************************************************)
(* Bounds                                                                  *)
(***************************************************************************)
MaxUnits == 2
\* config.command_max_count
max_count == 2
MaxPartTokens == 2
MaxTokens == 4

(***************************************************************************)
(* Values.  A datum handed around by the stream is either a string or an   *)
(* opaque object.                                                          *)
(***************************************************************************)
StrVal(s) == [t |-> "str", s |-> s, n |-> 0]
ObjVal(n) == [t |-> "obj", s |-> <<>>, n |-> n]
IntVal(n) == [t |-> "int", s |-> <<>>, n |-> n]
IsStr(d) == d.t = "str"
\* Python truthiness of a datum: the empty string and 0 are falsy, objects are truthy
Truthy(d) == IF d.t = "str" THEN d.s # <<>> ELSE IF d.t = "int" THEN d.n # 0 ELSE TRUE

\* A segment of raw_data: a list of string tokens, or a unit kept as it is
ListSeg(items) == [list |-> TRUE, items |-> items, unit |-> StrVal(<<>>)]
UnitSeg(d) == [list |-> FALSE, items |-> <<>>, unit |-> d]

\* Python indexing: seq[i] with i counted from 0, negative i from the end
PyOk(seq, i) == (i >= 0 /\ i < Len(seq)) \/ (i < 0 /\ -i <= Len(seq))
PyPos(seq, i) == IF i >= 0 THEN i + 1 ELSE Len(seq) + i + 1
PyAt(seq, i) == seq[PyPos(seq, i)]
\* Python slicing seq[i:]
PyFrom(seq, i) ==
    LET start == IF i >= 0 THEN (IF i > Len(seq) THEN Len(seq) ELSE i)
                 ELSE (IF -i > Len(seq) THEN 0 ELSE Len(seq) + i)
    IN  SubSeq(seq, start + 1, Len(seq))

Quotes == {"'", "\""}
Spaces == {" ", "\n", "\r", "\t"}

(***************************************************************************)
(* util.split_once: the text up to the first separator outside quotes, and *)
(* the text after that separator.                                          *)
(***************************************************************************)
RECURSIVE split_once_scan(_, _, _, _)
split_once_scan(text, separates, i, quotation) ==
    IF i > Len(text) THEN i
    ELSE LET char == text[i]
             q == IF char \in Quotes
                  THEN (IF quotation = "" THEN char
                        ELSE IF char = quotation THEN "" ELSE quotation)
                  ELSE quotation
             is_split == (q = "")
         IN  IF char \in separates /\ is_split THEN i
             ELSE split_once_scan(text, separates, i + 1, q)

split_once(text, separates) ==
    LET stop == split_once_scan(text, separates, 1, "")
    IN  <<SubSeq(text, 1, stop - 1), SubSeq(text, stop + 1, Len(text))>>

(***************************************************************************)
(* util.split: quote- and escape-aware splitting of a string.              *)
(***************************************************************************)
RECURSIVE split_scan(_, _, _, _, _, _)
split_scan(text, separates, i, quotation, cache, result) ==
    IF i > Len(text)
    THEN (IF cache # <<>> THEN Append(result, cache) ELSE result)
    ELSE LET char == text[i]
             escaped == i > 1 /\ text[i - 1] = "\\"
         IN  IF char \in Quotes
             THEN IF quotation = ""
                  THEN split_scan(text, separates, i + 1, char,
                                  IF escaped THEN Append(cache, char) ELSE cache, result)
                  ELSE IF char = quotation
                  THEN split_scan(text, separates, i + 1, "",
                                  IF escaped THEN Append(cache, char) ELSE cache, result)
                  ELSE split_scan(text, separates, i + 1, quotation, cache, result)
             ELSE IF char \in {"\n", "\r"} \/ (quotation = "" /\ char \in separates /\ cache # <<>>)
             THEN split_scan(text, separates, i + 1, quotation, <<>>, Append(result, cache))
             ELSE IF char # "\\" /\ (char \notin separates \/ quotation # "")
             THEN split_scan(text, separates, i + 1, quotation, Append(cache, char), result)
             ELSE split_scan(text, separates, i + 1, quotation, cache, result)

split(text, separates) ==
    split_scan(text, IF separates = {} THEN {" "} ELSE separates, 1, "", <<>>, <<>>)

RECURSIVE lstrip(_)
lstrip(text) ==
    IF text # <<>> /\ Head(text) \in Spaces THEN lstrip(Tail(text)) ELSE text

RECURSIVE join(_, _)
join(items, sep) ==
    IF items = <<>> THEN <<>>
    ELSE IF Len(items) = 1 THEN items[1]
    ELSE items[1] \o <<sep>> \o join(Tail(items), sep)

(***************************************************************************)
(* The analysis/ Analyser token stream                                     *)
(***************************************************************************)
\* the command's separators (Alconna default)
separators == {" "}

\* Analyser.reset
reset ==
    [raw_data |-> <<>>, current_index |-> 0, content_index |-> 0, ndata |-> 0,
     temporary_data |-> {}, fail |-> FALSE, err |-> ""]

Raise(a, e) == [a EXCEPT !.err = e]

SetItem(a, val) ==
    [a EXCEPT !.raw_data[PyPos(a.raw_data, a.current_index)].items[
                  PyPos(PyAt(a.raw_data, a.current_index).items, a.content_index)] = val]

\* a next_data that counts the call at the end of the data as a consumption
next_data_end_advancing(a) ==
    [a |-> [a EXCEPT !.current_index = @ + 1], data |-> StrVal(<<>>), is_str |-> TRUE]

\* Analyser.next_data with no data left: the empty string, nothing moves
next_data_end(a) == [a |-> a, data |-> StrVal(<<>>), is_str |-> TRUE]

\* Analyser.next_data: the analyser after the call, the datum and is_str
next_data(a, separate, pop) ==
    LET a0 == [a EXCEPT !.temporary_data = {}]
    IN  IF a.current_index = a.ndata
        THEN next_data_end(a0)
        ELSE IF ~PyOk(a.raw_data, a.current_index)
        THEN [a |-> Raise(a0, "IndexError"), data |-> StrVal(<<>>), is_str |-> TRUE]
        ELSE LET _current_data == PyAt(a.raw_data, a.current_index)
             IN  IF _current_data.list
                 THEN IF ~PyOk(_current_data.items, a.content_index)
                      THEN [a |-> Raise(a0, "IndexError"), data |-> StrVal(<<>>), is_str |-> TRUE]
                      ELSE LET whole == PyAt(_current_data.items, a.content_index)
                               sp == IF separate # {} /\ ~(separate \subseteq separators)
                                     THEN split_once(whole, separate)
                                     ELSE <<whole, <<>>>>
                               a1 == IF ~pop THEN a0
                                     ELSE IF sp[2] # <<>>
                                     THEN [SetItem(a0, sp[2]) EXCEPT !.temporary_data = separate]
                                     ELSE [a0 EXCEPT !.content_index = @ + 1]
                               a2 == IF Len(_current_data.items) = a1.content_index
                                     THEN [a1 EXCEPT !.current_index = @ + 1, !.content_index = 0]
                                     ELSE a1
                           IN  [a |-> a2, data |-> StrVal(sp[1]), is_str |-> TRUE]
                 ELSE [a |-> IF pop THEN [a0 EXCEPT !.current_index = @ + 1] ELSE a0,
                       data |-> _current_data.unit, is_str |-> FALSE]

\* len(self.raw_data[i]) for a segment
SegLen(seg) == IF seg.list THEN Len(seg.items) ELSE Len(seg.unit.s)

\* Analyser.reduce_data; pick is the separator that seps.copy().pop() yields
reduce_data(a, data, replace, pick) ==
    IF ~Truthy(data) THEN a
    ELSE IF a.current_index = a.ndata
    THEN LET a1 == [a EXCEPT !.current_index = @ - 1]
         IN  IF ~PyOk(a1.raw_data, a1.current_index) THEN Raise(a1, "IndexError")
             ELSE LET seg == PyAt(a1.raw_data, a1.current_index)
                  IN  IF IsStr(data) /\ ~seg.list /\ ~IsStr(seg.unit) THEN Raise(a1, "TypeError")
                      ELSE LET a2 == IF IsStr(data)
                                     THEN [a1 EXCEPT !.content_index = SegLen(seg) - 1]
                                     ELSE a1
                           IN  IF ~replace THEN a2
                               ELSE IF IsStr(data)
                               THEN (IF ~seg.list THEN Raise(a2, "TypeError")
                                     ELSE IF ~PyOk(seg.items, a2.content_index)
                                     THEN Raise(a2, "IndexError")
                                     ELSE SetItem(a2, data.s))
                               ELSE [a2 EXCEPT !.raw_data[PyPos(a2.raw_data, a2.current_index)] =
                                                   UnitSeg(data)]
    ELSE IF ~PyOk(a.raw_data, a.current_index) THEN Raise(a, "IndexError")
    ELSE LET _current_data == PyAt(a.raw_data, a.current_index)
         IN  IF _current_data.list /\ IsStr(data)
             THEN IF a.temporary_data # {}
                  THEN (IF ~PyOk(_current_data.items, a.content_index) THEN Raise(a, "IndexError")
                        ELSE SetItem(a, data.s \o <<pick>> \o
                                        PyAt(_current_data.items, a.content_index)))
                  ELSE LET a1 == [a EXCEPT !.content_index = @ - 1]
                       IN  IF ~replace THEN a1
                           ELSE IF ~PyOk(_current_data.items, a1.content_index)
                           THEN Raise(a1, "IndexError")
                           ELSE SetItem(a1, data.s)
             ELSE LET a1 == [a EXCEPT !.current_index = @ - 1]
                  IN  IF ~replace THEN a1
                      ELSE IF ~PyOk(a1.raw_data, a1.current_index) THEN Raise(a1, "IndexError")
                      ELSE [a1 EXCEPT !.raw_data[PyPos(a1.raw_data, a1.current_index)] =
                                          UnitSeg(data)]

\* the loop of Analyser.recover_raw_data over raw_data[current_index:]
RECURSIVE recover_scan(_, _, _, _)
recover_scan(segs, content_index, is_cur, sep) ==
    IF segs = <<>> THEN <<>>
    ELSE LET _data == Head(segs)
         IN  IF _data.list
             THEN <<StrVal(join(IF is_cur THEN _data.items
                                ELSE PyFrom(_data.items, content_index), sep))>>
                  \o recover_scan(Tail(segs), content_index, TRUE, sep)
             ELSE <<_data.unit>> \o recover_scan(Tail(segs), content_index, is_cur, sep)

\* Analyser.recover_raw_data: the remaining data, and the analyser moved to the end
recover_raw_data(a, pick) ==
    [a |-> [a EXCEPT !.current_index = a.ndata, !.content_index = 0],
     result |-> recover_scan(PyFrom(a.raw_data, a.current_index), a.content_index, FALSE, pick)]

\* the loop of Analyser.process_message over the units of the message
RECURSIVE process_units(_, _)
process_units(raw, data) ==
    IF data = <<>> THEN raw
    ELSE LET unit == Head(data)
         IN  IF IsStr(unit) /\ unit.s # <<>>
             THEN LET res == split(lstrip(unit.s), separators)
                  IN  IF res = <<>> THEN process_units(raw, Tail(data))
                      ELSE process_units(Append(raw, ListSeg(res)), Tail(data))
             ELSE process_units(Append(raw, UnitSeg(unit)), Tail(data))

\* Analyser.process_message (is_raise_exception off: a null message is recorded as fail)
process_message(a, data) ==
    LET raw == process_units(a.raw_data, data)
        i == Len(raw) - Len(a.raw_data)
    IN  IF i < 1 THEN [a EXCEPT !.raw_data = raw, !.fail = TRUE]
        ELSE [a EXCEPT !.raw_data = raw, !.ndata = i]

(***************************************************************************)
(* Value patterns.  The pattern library is outside the core; a pattern is  *)
(* used through validate(text, default) -> (value, "V" | "D" | "E").       *)
(***************************************************************************)
NoneVal == [t |-> "none", s |-> <<>>, n |-> 0]
EmptyVal == [t |-> "empty", s |-> <<>>, n |-> 0]

Digits == {"0", "1", "2", "3", "4", "5", "6", "7", "8", "9"}
DigitOf(c) == CHOOSE d \in 0..9 : <<"0", "1", "2", "3", "4", "5", "6", "7", "8", "9">>[d + 1] = c

RECURSIVE to_int(_, _)
to_int(chars, acc) ==
    IF chars = <<>> THEN acc ELSE to_int(Tail(chars), acc * 10 + DigitOf(Head(chars)))

IsIntText(chars) == chars # <<>> /\ \A i \in 1..Len(chars) : chars[i] \in Digits

\* BasePattern.validate of the patterns "int" and "str"
validate(value, arg, default) ==
    LET ok == IF value = "int" THEN (arg.t = "int" \/ (IsStr(arg) /\ IsIntText(arg.s)))
              ELSE IsStr(arg)
        res == IF value = "int" /\ IsStr(arg) THEN IntVal(to_int(arg.s, 0)) ELSE arg
    IN  IF ok THEN [res |-> res, state |-> "V"]
        ELSE IF default.t # "none"
        THEN [res |-> (IF default.t = "empty" THEN NoneVal ELSE default), state |-> "D"]
        ELSE [res |-> NoneVal, state |-> "E"]

\* a dict, as a function from its keys
EmptyDict == [k \in {} |-> NoneVal]
Put(d, k, v) == [x \in (DOMAIN d) \cup {k} |-> IF x = k THEN v ELSE d[x]]

(***************************************************************************)
(* analysis/parts.py: Args, Option and Subcommand on the Analyser stream   *)
(***************************************************************************)
\* the ids of the command's options and subcommands (Analyser.param_ids)
param_ids == { <<"-", "f">>, <<"-", "o">>, <<"s", "u", "b">> }

OldArg(key, value, default, optional) ==
    [key |-> key, value |-> value, default |-> default, optional |-> optional]

\* parts.analyse_args over the slots of opt_args.argument, in order
RECURSIVE parts_analyse_args(_, _, _, _)

\* one slot, after its validation: v is the outcome, a1 the stream it leaves
parts_args_validated(arg, rest, option_dict, pick, v, a1) ==
    IF v.state = "E"
    THEN IF arg.optional
         THEN parts_analyse_args(a1, rest, option_dict, pick)
         ELSE [a |-> a1, args |-> option_dict, exc |-> "ParamsUnmatched"]
    ELSE parts_analyse_args(a1, rest, Put(option_dict, arg.key, v.res), pick)

\* AllParam: the rest of the data is the value
parts_args_all(arg, option_dict, back, rec) ==
    [a |-> rec.a, exc |-> back.err,
     args |-> Put(option_dict, arg.key, [t |-> "list", s |-> rec.result, n |-> 0])]

\* one slot: r is what next_data gave, back the stream with the datum put back
parts_args_slot(arg, rest, option_dict, pick, r, back, v) ==
    IF ~Truthy(r.data) \/ (r.is_str /\ r.data.s \in param_ids)
    THEN IF arg.default.t = "none"
         THEN IF arg.optional
              THEN parts_analyse_args(back, rest, option_dict, pick)
              ELSE [a |-> back, args |-> option_dict, exc |-> "ArgumentMissing"]
         ELSE parts_analyse_args(back, rest,
                  Put(option_dict, arg.key,
                      IF arg.default.t = "empty" THEN NoneVal ELSE arg.default), pick)
    ELSE IF arg.value = "AllParam"
    THEN parts_args_all(arg, option_dict, back, recover_raw_data(back, pick))
    ELSE parts_args_validated(arg, rest, option_dict, pick, v,
                              IF v.state # "V" THEN back ELSE r.a)

parts_args_next(arg, rest, option_dict, pick, r) ==
    parts_args_slot(arg, rest, option_dict, pick, r,
                    reduce_data(r.a, r.data, FALSE, pick),
                    validate(arg.value, r.data, arg.default))

parts_analyse_args(a, argument, option_dict, pick) ==
    IF a.err # "" THEN [a |-> a, args |-> option_dict, exc |-> a.err]
    ELSE IF argument = <<>> THEN [a |-> a, args |-> option_dict, exc |-> ""]
    ELSE parts_args_next(Head(argument), Tail(argument), option_dict, pick,
                         next_data(a, separators, TRUE))

StartsWith(text, prefix) ==
    Len(prefix) <= Len(text) /\ SubSeq(text, 1, Len(prefix)) = prefix

\* str.lstrip(chars): strips every leading character that occurs in chars
RECURSIVE py_lstrip(_, _)
py_lstrip(text, chars) ==
    IF text # <<>> /\ Head(text) \in chars THEN py_lstrip(Tail(text), chars) ELSE text

Range(seq) == { seq[i] : i \in 1..Len(seq) }

OldOption(name, is_compact, args) ==
    [name |-> name, aliases |-> <<name>>, dest |-> name, is_compact |-> is_compact,
     args |-> args, nargs |-> Len(args), separators |-> {" "}]

\* the first alias the name starts with (0: none)
first_alias(name, aliases) ==
    LET hit == { i \in 1..Len(aliases) : StartsWith(name, aliases[i]) }
    IN  IF hit = {} THEN 0 ELSE CHOOSE i \in hit : \A j \in hit : i <= j

parts_option_result(param, res) ==
    [a |-> res.a, dest |-> param.dest, args |-> res.args, exc |-> res.exc]

\* analyse_option after the name has been matched, a1 being the stream then
parts_option_args(param, pick, a1) ==
    IF param.nargs = 0
    THEN [a |-> a1, dest |-> param.dest, args |-> EmptyDict, exc |-> a1.err]
    ELSE parts_option_result(param, parts_analyse_args(a1, param.args, EmptyDict, pick))

\* name.lstrip(al), the text analyse_option puts back in the place of a compact name
name_lstrip(name, al) == StrVal(py_lstrip(name, Range(al)))

\* the outcome of analyse_option and the text it has put back (None: nothing)
Pushed(res, data) ==
    [a |-> res.a, dest |-> res.dest, args |-> res.args, exc |-> res.exc, pushed |-> data]

\* analyse_option once next_data has given the name: r is its outcome, al the index of
\* the alias a compact name starts with
parts_option_named(param, pick, r, al) ==
    IF r.a.err # ""
    THEN Pushed([a |-> r.a, dest |-> param.dest, args |-> EmptyDict, exc |-> r.a.err],
                NoneVal)
    ELSE IF ~(IF param.is_compact THEN al # 0 ELSE r.data.s \in Range(param.aliases))
    THEN Pushed([a |-> r.a, dest |-> param.dest, args |-> EmptyDict,
                 exc |-> "ParamsUnmatched"], NoneVal)
    ELSE IF param.is_compact
    THEN Pushed(parts_option_args(param, pick,
                                  reduce_data(r.a, name_lstrip(r.data.s, param.aliases[al]),
                                              TRUE, pick)),
                name_lstrip(r.data.s, param.aliases[al]))
    ELSE Pushed(parts_option_args(param, pick, r.a), NoneVal)

parts_option_name(param, pick, r) ==
    parts_option_named(param, pick, r,
                       IF r.is_str THEN first_alias(r.data.s, param.aliases) ELSE 0)

\* parts.analyse_option: the option's name, then its Args
parts_analyse_option(a, param, pick) ==
    parts_option_name(param, pick,
                      next_data(a, IF param.is_compact THEN {} ELSE param.separators, TRUE))

\* parts.analyse_params for a dict of option lists: what the pending text selects
RECURSIVE parts_scan_params(_, _)
parts_scan_params(_text, params) ==
    IF params = <<>> THEN <<>>
    ELSE LET _p == Head(params)
             res == SelectSeq(_p, LAMBDA _o :
                        IF ~_o.is_compact
                        THEN split_once(_text, _o.separators)[1] \in Range(_o.aliases)
                        ELSE \E i \in 1..Len(_o.aliases) : StartsWith(_text, _o.aliases[i]))
         IN  IF res # <<>> THEN res ELSE parts_scan_params(_text, Tail(params))

parts_params_found(r, exact, res) ==
    IF ~r.is_str THEN [a |-> r.a, kind |-> "Ellipsis", found |-> <<>>]
    ELSE IF ~Truthy(r.data) THEN [a |-> r.a, kind |-> "empty", found |-> <<>>]
    ELSE IF exact # <<>> THEN [a |-> r.a, kind |-> "list", found |-> exact[1]]
    ELSE [a |-> r.a, kind |-> IF res = <<>> THEN "None" ELSE "list", found |-> res]

parts_params_peeked(params, r) ==
    parts_params_found(r, SelectSeq(params, LAMBDA _p : _p[1].name = r.data.s),
                       parts_scan_params(r.data.s, params))

parts_analyse_params(a, params) ==
    parts_params_peeked(params, next_data(a, separators, FALSE))

\* Analyser.export(fail=True): error_data is what is left of the data, then reset()
export_fail(a, pick) ==
    [a |-> reset, matched |-> FALSE, error_data |-> recover_raw_data(a, pick).result]

(***************************************************************************)
(* _internal/_argv.Argv, the token stream of the _internal/ handlers.  Its *)
(* source is not among the files of src; it is modelled from its           *)
(* description: raw_data is the list of tokens, current_index the number   *)
(* of tokens consumed.                                                     *)
(***************************************************************************)
ArgvNew ==
    [raw_data |-> <<>>, current_index |-> 0, ndata |-> 0, sep |-> {}, context |-> "None",
     disabled |-> {}]

\* build: every string unit is split into tokens, an opaque unit is one token
RECURSIVE argv_tokens(_)
argv_tokens(data) ==
    IF data = <<>> THEN <<>>
    ELSE (IF IsStr(Head(data))
          THEN [i \in 1..Len(split(Head(data).s, separators)) |->
                    StrVal(split(Head(data).s, separators)[i])]
          ELSE <<Head(data)>>) \o argv_tokens(Tail(data))

argv_filled(tokens) ==
    [raw_data |-> tokens, current_index |-> 0, ndata |-> Len(tokens), sep |-> {},
     context |-> "None", disabled |-> {}]

argv_build(data) == argv_filled(argv_tokens(data))

\* next with separators other than the stream's: a one-shot sub-split of the pending
\* token, whose remainder stays pending
argv_next_split(v, separate, move, parts) ==
    [argv |-> IF ~move THEN [v EXCEPT !.sep = {}]
              ELSE IF parts[2] # <<>>
              THEN [v EXCEPT !.raw_data[v.current_index + 1] = StrVal(parts[2]),
                             !.sep = separate]
              ELSE [v EXCEPT !.current_index = @ + 1, !.sep = {}],
     data |-> StrVal(parts[1]), is_str |-> TRUE]

argv_next_at(v, separate, move, cur) ==
    IF IsStr(cur) /\ separate # {} /\ separate # separators
    THEN argv_next_split(v, separate, move, split_once(cur.s, separate))
    ELSE [argv |-> IF move THEN [v EXCEPT !.current_index = @ + 1, !.sep = {}]
                   ELSE [v EXCEPT !.sep = {}],
          data |-> cur, is_str |-> IsStr(cur)]

\* Argv.next(separate, move): the pending token and whether it is a string; the
\* empty string at the end of the data
argv_next(v, separate, move) ==
    IF v.current_index = v.ndata
    THEN [argv |-> [v EXCEPT !.sep = {}], data |-> StrVal(<<>>), is_str |-> TRUE]
    ELSE argv_next_at(v, separate, move, v.raw_data[v.current_index + 1])

\* Argv.rollback(data, replace): nothing for an empty datum; after a sub-split the
\* datum and its separator are put in front of the remainder; otherwise the index
\* goes back by one and, with replace, the slot is overwritten
argv_rollback(v, data, replace, pick) ==
    IF data = StrVal(<<>>) \/ data = NoneVal THEN v
    ELSE IF v.sep # {}
    THEN [v EXCEPT !.raw_data[v.current_index + 1] = StrVal(data.s \o <<pick>> \o @.s),
                   !.sep = {}]
    ELSE IF v.current_index = 0 THEN v
    ELSE IF replace
    THEN [v EXCEPT !.current_index = @ - 1, !.raw_data[v.current_index] = data]
    ELSE [v EXCEPT !.current_index = @ - 1]

\* Argv.release(): the tokens not yet consumed
argv_release(v) == SubSeq(v.raw_data, v.current_index + 1, Len(v.raw_data))

\* Argv.data_set() and Argv.data_reset(data, index)
argv_data_set(v) == [data |-> v.raw_data, index |-> v.current_index]
argv_data_reset(v, snap) ==
    [v EXCEPT !.raw_data = snap.data, !.current_index = snap.index]

(***************************************************************************)
(* _internal/_handlers.py: the Args of the _internal/ handlers.  An Args   *)
(* has normal slots, keyword-only slots and variadic keyword slots; the    *)
(* analysis threads a state st = (argv, result, exc, log), the log being   *)
(* the list of what each slot did to the stream.                           *)
(***************************************************************************)
NewArg(name, value, default, optional) ==
    [name |-> name, value |-> value, default |-> default, optional |-> optional,
     separators |-> {" "}, sep |-> "=", flag |-> "*", length |-> 0]

\* unpack is empty, or the one unpack slot: its Arg and the nested Args
NewArgs(normal, keyword_only, vars_keyword) ==
    [normal |-> normal, keyword_only |-> keyword_only, vars_keyword |-> vars_keyword,
     unpack |-> <<>>, vars_positional |-> <<>>]

NoArgs == NewArgs(<<>>, <<>>, <<>>)

WithUnpack(args, arg, unpack) == [args EXCEPT !.unpack = <<[arg |-> arg, args |-> unpack]>>]

\* typing.MultiVar(base, flag) with the flag "+" or "*": any number of values
MultiVar(arg, flag) == [arg EXCEPT !.flag = flag, !.length = -1]

\* an Args whose variadic positional slots are these
WithVarPos(args, vars_positional) == [args EXCEPT !.vars_positional = vars_positional]

ArgsLen(args) ==
    Len(args.normal) + Len(args.keyword_only) + Len(args.vars_keyword) + Len(args.unpack)
    + Len(args.vars_positional)

\* Args.separate(*separator): every slot of the Args is given these separators
args_separate(args, seps) ==
    [args EXCEPT !.normal = [i \in 1..Len(args.normal) |->
                                [args.normal[i] EXCEPT !.separators = seps]],
                 !.keyword_only = [i \in 1..Len(args.keyword_only) |->
                                      [args.keyword_only[i] EXCEPT !.separators = seps]],
                 !.vars_keyword = [i \in 1..Len(args.vars_keyword) |->
                                      [args.vars_keyword[i] EXCEPT !.separators = seps]],
                 !.vars_positional = [i \in 1..Len(args.vars_positional) |->
                                         [args.vars_positional[i] EXCEPT !.separators = seps]]]

\* value.validate(arg, default) of the patterns "int" and "str"; Empty is no default
pattern_validate(value, arg, default) ==
    IF (IF value = "int" THEN (arg.t = "int" \/ (IsStr(arg) /\ IsIntText(arg.s)))
        ELSE IsStr(arg))
    THEN [res |-> IF value = "int" /\ IsStr(arg) THEN IntVal(to_int(arg.s, 0)) ELSE arg,
          state |-> "V"]
    ELSE IF default.t # "empty" THEN [res |-> default, state |-> "D"]
    ELSE [res |-> NoneVal, state |-> "E"]

ArgsState(v) == [argv |-> v, result |-> EmptyDict, exc |-> "", log |-> <<>>, stop |-> FALSE]

\* one entry of the log: slot `name` began reading at index `from`, and left the
\* stream at index `to`
Ev(kind, name, from, to) == [kind |-> kind, name |-> name, from |-> from, to |-> to]

Logged(st, kind, name, from) ==
    [st EXCEPT !.log = Append(@, Ev(kind, name, from, st.argv.current_index))]

\* _validate, after value.validate
validate_flag(st, target, from, res) ==
    IF res.state = "E"
    THEN Logged([st EXCEPT !.exc = IF target.optional THEN "" ELSE "InvalidParam"],
                "error", target.name, from)
    ELSE Logged([st EXCEPT !.result = Put(@, target.name, res.res)],
                IF res.state = "V" THEN "valid" ELSE "default", target.name, from)

validate_res(st, target, arg, from, pick, res) ==
    validate_flag(IF res.state # "V"
                  THEN [st EXCEPT !.argv = argv_rollback(@, arg, FALSE, pick)] ELSE st,
                  target, from, res)

\* _validate(argv, target, value, result, arg, _str)
_validate(st, target, value, arg, _str, from, pick) ==
    IF (value = "str" /\ _str) \/ value = "any"
    THEN Logged([st EXCEPT !.result = Put(@, target.name, arg)], "valid", target.name, from)
    ELSE validate_res(st, target, arg, from, pick,
                      pattern_validate(value, arg, target.default))

\* argv.special: the names of the builtin options.  The namespace's
\* disable_builtin_options is the field `disabled` of the argv; Namespaces are the
\* values a parse is run with
special == { <<"-", "-", "h", "e", "l", "p">>, <<"-", "h">> }
Namespaces == { {}, {"help"} }
remainders == { <<"-", "-">> }

\* may_arg in argv.special and argv.special[may_arg] not in disable_builtin_options
IsSpecial(r) ==
    r.is_str /\ r.data.s \in special /\ "help" \notin r.argv.disabled

\* util.levenshtein_norm(source, target) >= threshold, the threshold being 0.6
levenshtein_close(source, target) ==
    LET matrix[i \in 0..Len(source), j \in 0..Len(target)] ==
            IF i = 0 THEN j
            ELSE IF j = 0 THEN i
            ELSE LET sub_distance == matrix[i - 1, j - 1]
                                     + (IF source[i] = target[j] THEN 0 ELSE 1)
                     up == matrix[i - 1, j] + 1
                     left == matrix[i, j - 1] + 1
                 IN  IF up <= left /\ up <= sub_distance THEN up
                     ELSE IF left <= sub_distance THEN left ELSE sub_distance
        longest == IF Len(source) >= Len(target) THEN Len(source) ELSE Len(target)
    IN  longest > 0 /\ 10 * (longest - matrix[Len(source), Len(target)]) >= 6 * longest

\* the text after its leading dashes
RECURSIVE strip_dashes(_)
strip_dashes(text) ==
    IF text # <<>> /\ Head(text) = "-" THEN strip_dashes(Tail(text)) ELSE text

\* pat.match(key)["name"] for pat = (?:-*no)?-*(?P<name>.+); <<>> stands for no match
pat_name(key) ==
    LET a == strip_dashes(key)
        b == SubSeq(a, 3, Len(a))
        c == strip_dashes(b)
    IN  IF key = <<>> THEN <<>>
        ELSE IF a = <<>> THEN <<"-">>
        ELSE IF StartsWith(a, <<"n", "o">>)
        THEN (IF c # <<>> THEN c ELSE IF b # <<>> THEN <<"-">> ELSE a)
        ELSE a

\* the index of the slot of that name among the slots (0: none)
slot_of(slots, name) ==
    IF \E i \in 1..Len(slots) : slots[i].name = name
    THEN CHOOSE i \in 1..Len(slots) : slots[i].name = name
    ELSE 0

(***************************************************************************)
(* The command of the _internal/ model: main Args m?:int, d?:int = 7 and   *)
(* nine options, one for each way an option is matched and merged.         *)
(***************************************************************************)
Ellipsis == ObjVal(0)
ListVal(items) == [t |-> "list", s |-> items, n |-> 0]

Action(type, value) == [type |-> type, value |-> value]
store == Action(0, Ellipsis)
append == Action(1, ListVal(<<Ellipsis>>))
count(value) == Action(2, IntVal(value))

\* allow_duplicate is a field of the Option of the data model, false unless given; the
\* handlers never read it
NewOption(name, aliases, compact, action, args) ==
    [name |-> name, aliases |-> aliases, dest |-> strip_dashes(name), compact |-> compact,
     action |-> action, args |-> args, nargs |-> ArgsLen(args), separators |-> {" "},
     allow_duplicate |-> FALSE]

self_args ==
    NewArgs(<<NewArg(<<"m">>, "int", EmptyVal, TRUE), NewArg(<<"d">>, "int", IntVal(7), TRUE)>>,
            <<>>, <<>>)

options ==
    << NewOption(<<"-", "a">>, << <<"-", "a">> >>, FALSE, append,
                 NewArgs(<<NewArg(<<"x">>, "int", EmptyVal, TRUE),
                           NewArg(<<"e">>, "int", IntVal(7), TRUE)>>, <<>>, <<>>)),
       NewOption(<<"-", "v">>, << <<"-", "v">> >>, FALSE, count(1), NoArgs),
       NewOption(<<"-", "w">>, << <<"-", "w">> >>, FALSE, count(2), NoArgs),
       NewOption(<<"-", "c">>, << <<"-", "c">> >>, FALSE, count(1),
                 NewArgs(<<NewArg(<<"z">>, "int", EmptyVal, FALSE)>>, <<>>, <<>>)),
       NewOption(<<"-", "l">>, << <<"-", "l">> >>, FALSE, append, NoArgs),
       NewOption(<<"-", "f">>, << <<"-", "f">> >>, TRUE, store,
                 NewArgs(<<NewArg(<<"y">>, "int", EmptyVal, FALSE)>>, <<>>, <<>>)),
       NewOption(<<"-", "k">>, << <<"-", "k">> >>, FALSE, store,
                 NewArgs(<<>>, <<NewArg(<<"k">>, "int", EmptyVal, FALSE)>>, <<>>)),
       NewOption(<<"-", "q">>, << <<"-", "q">> >>, FALSE, store,
                 NewArgs(<<>>, <<>>, <<NewArg(<<"k", "w">>, "int", EmptyVal, FALSE)>>)),
       NewOption(<<"-", "-", "h", "e", "l", "p">>,
                 << <<"-", "-", "h", "e", "l", "p">>, <<"-", "h">> >>, FALSE, store, NoArgs),
       NewOption(<<"-", "u">>, << <<"-", "u">> >>, FALSE, store,
                 WithUnpack(NoArgs, NewArg(<<"p">>, "origin", IntVal(0), FALSE),
                            args_separate(NewArgs(<<NewArg(<<"n">>, "int", EmptyVal, FALSE)>>,
                                                  <<>>, <<>>), {","}))),
       NewOption(<<"-", "g">>, << <<"-", "g">> >>, FALSE, store,
                 NewArgs(<<>>, <<NewArg(<<"k">>, "int", EmptyVal, FALSE),
                                 NewArg(<<"j">>, "int", EmptyVal, FALSE)>>, <<>>)),
       NewOption(<<"-", "p">>, << <<"-", "p">> >>, FALSE, store,
                 WithVarPos(NoArgs,
                            <<MultiVar(NewArg(<<"s">>, "int", EmptyVal, FALSE), "*"),
                              MultiVar(NewArg(<<"t">>, "int", ListVal(<<IntVal(7)>>), FALSE),
                                       "+"),
                              MultiVar(NewArg(<<"i">>, "int", IntVal(7), FALSE), "*"),
                              MultiVar(NewArg(<<"u">>, "int", ListVal(<<IntVal(8)>>), FALSE),
                                       "*")>>)),
       NewOption(<<"-", "r">>, << <<"-", "r">> >>, FALSE, store,
                 WithVarPos(NoArgs,
                            <<MultiVar(NewArg(<<"o">>, "int", EmptyVal, FALSE), "+")>>)) >>

\* the nested Args objects the options of the command hold (<<>>: no unpack slot)
unpacks == [i \in 1..Len(options) |-> options[i].args.unpack]

\* argv.param_ids: every alias of every option
argv_param_ids == UNION { Range(options[i].aliases) : i \in 1..Len(options) }

\* analyser.compile_params: the option an alias stands for (0: none)
compile_params(text) ==
    IF \E i \in 1..Len(options) : text \in Range(options[i].aliases)
    THEN CHOOSE i \in 1..Len(options) : text \in Range(options[i].aliases)
    ELSE 0

\* analyser.compact_params: the options matched by the beginning of a token
compact_params ==
    SelectSeq(options, LAMBDA opt : opt.compact \/ opt.action.type = 2)

(***************************************************************************)
(* _internal/_handlers.analyse_args and its steps                          *)
(***************************************************************************)
Raised(st, v, exc) == [st EXCEPT !.argv = v, !.exc = exc]

\* the default of a slot that found no token: injected if there is one, else the slot
\* is missing unless optional
absent_default(st, arg) ==
    IF arg.default # EmptyVal THEN [st EXCEPT !.result = Put(@, arg.name, arg.default)]
    ELSE IF ~arg.optional THEN [st EXCEPT !.exc = "ArgumentMissing"]
    ELSE st

\* an optional slot in front of a param id that injects nothing
param_id_default_none(st, arg) == st

\* the default of an optional slot in front of a param id
param_id_default(st, arg) ==
    IF arg.default # EmptyVal THEN [st EXCEPT !.result = Put(@, arg.name, arg.default)]
    ELSE st

\* value.alias == "*": the rest of the data is the value
all_param(st, arg, v) ==
    [st EXCEPT !.argv = [v EXCEPT !.current_index = v.ndata],
               !.result = Put(@, arg.name, ListVal(argv_release(v))),
               !.stop = TRUE]

\* analyse_args, one normal slot: r is what argv.next gave, from the index before it
normal_slot(st, arg, pick, r, from) ==
    IF IsSpecial(r) THEN Raised(st, r.argv, "SpecialOptionTriggered")
    ELSE IF r.is_str /\ r.data.s \in argv_param_ids /\ arg.optional
    THEN Logged(param_id_default(
                    [st EXCEPT !.argv = argv_rollback(r.argv, r.data, FALSE, pick)], arg),
                "absent", arg.name, from)
    ELSE IF ~Truthy(r.data)
    THEN Logged(absent_default(
                    [st EXCEPT !.argv = argv_rollback(r.argv, r.data, FALSE, pick)], arg),
                "absent", arg.name, from)
    ELSE IF arg.value = "*"
    THEN all_param(st, arg, argv_rollback(r.argv, r.data, FALSE, pick))
    ELSE _validate([st EXCEPT !.argv = r.argv], arg, arg.value, r.data, r.is_str, from, pick)

\* analyse_args: the loop over args.argument.normal
normal_next(st, arg, pick) ==
    normal_slot(st, arg, pick, argv_next(st.argv, arg.separators, TRUE),
                st.argv.current_index)

RECURSIVE analyse_normal(_, _, _)
analyse_normal(st, normal, pick) ==
    IF st.exc # "" \/ st.stop \/ normal = <<>> THEN st
    ELSE analyse_normal(normal_next([st EXCEPT !.argv.context = "Arg"], Head(normal), pick),
                        Tail(normal), pick)

\* step_keyword, after its loop: the defaults of the keys not given
RECURSIVE keyword_defaults(_, _)
keyword_defaults(st, keyword_only) ==
    IF st.exc # "" \/ keyword_only = <<>> THEN st
    ELSE keyword_defaults(
             IF Head(keyword_only).name \in DOMAIN st.result THEN st
             ELSE absent_default(st, Head(keyword_only)),
             Tail(keyword_only))

keyword_end(st, args, cnt) ==
    IF cnt < Len(args.keyword_only) THEN keyword_defaults(st, args.keyword_only) ELSE st

\* step_keyword: a token whose key is no keyword of the Args (already rolled back)
keyword_unknown(st, args, cnt, r, _key) ==
    IF args.vars_keyword # <<>> \/ r.data.s \in argv_param_ids
    THEN keyword_end(st, args, cnt)
    ELSE IF \E i \in 1..Len(args.keyword_only) :
               pattern_validate(args.keyword_only[i].value, r.data, EmptyVal).state = "V"
    THEN [st EXCEPT !.exc = "InvalidParam"]
    ELSE IF \E i \in 1..Len(args.keyword_only) :
               levenshtein_close(_key, args.keyword_only[i].name)
    THEN [st EXCEPT !.exc = "FuzzyMatchSuccess"]
    ELSE [st EXCEPT !.exc = "InvalidParam"]

\* step_keyword(argv, args, result), cnt being its local count
RECURSIVE step_keyword(_, _, _, _)

\* the value of a known key that came without its value: read by a second next
keyword_second(st, args, cnt, pick, arg, from, r2) ==
    step_keyword(_validate([st EXCEPT !.argv = r2.argv], arg, arg.value, r2.data, TRUE,
                           from, pick),
                 args, cnt + 1, pick)

keyword_known(st, args, cnt, pick, arg, from, _m_arg) ==
    IF _m_arg # <<>>
    THEN step_keyword(_validate(st, arg, arg.value, StrVal(_m_arg), TRUE, from, pick),
                      args, cnt + 1, pick)
    ELSE keyword_second(st, args, cnt, pick, arg, from,
                        argv_next(st.argv, arg.separators, TRUE))

keyword_key(st, args, cnt, pick, r, from, _m_arg, _key) ==
    IF slot_of(args.keyword_only, _key) = 0
    THEN keyword_unknown([st EXCEPT !.argv = argv_rollback(@, r.data, FALSE, pick)],
                         args, cnt, r, _key)
    ELSE keyword_known(st, args, cnt, pick,
                       args.keyword_only[slot_of(args.keyword_only, _key)], from, _m_arg)

\* key, _m_arg = split_once(may_arg, kwonly_seps1); the key is looked up by its name
\* without dashes and "no", then as it is
keyword_split(st, args, cnt, pick, r, from, parts) ==
    IF parts[1] = <<>> THEN [st EXCEPT !.exc = "TypeError"]
    ELSE keyword_key(st, args, cnt, pick, r, from, parts[2],
                     IF slot_of(args.keyword_only, pat_name(parts[1])) # 0
                     THEN pat_name(parts[1]) ELSE parts[1])

keyword_token(st, args, cnt, pick, r, from) ==
    IF IsSpecial(r) THEN Raised(st, r.argv, "SpecialOptionTriggered")
    ELSE IF ~Truthy(r.data) \/ ~r.is_str
    THEN keyword_end([st EXCEPT !.argv = argv_rollback(r.argv, r.data, FALSE, pick)],
                     args, cnt)
    ELSE IF r.data.s \in remainders THEN keyword_end([st EXCEPT !.argv = r.argv], args, cnt)
    ELSE keyword_split([st EXCEPT !.argv = r.argv], args, cnt, pick, r, from,
                       split_once(r.data.s, {"="}))

step_keyword(st, args, cnt, pick) ==
    IF st.exc # "" THEN st
    ELSE IF cnt >= Len(args.keyword_only) THEN keyword_end(st, args, cnt)
    ELSE keyword_token(st, args, cnt, pick, argv_next(st.argv, {" "}, TRUE),
                       st.argv.current_index)

\* a dict built by step_varkey, as the list of its items
DictVal(items) == [t |-> "dict", s |-> items, n |-> 0]
DictPut(items, key, value) ==
    IF \E i \in 1..Len(items) : items[i][1] = key
    THEN [i \in 1..Len(items) |-> IF items[i][1] = key THEN <<key, value>> ELSE items[i]]
    ELSE Append(items, <<key, value>>)

\* the position of the first "=" of a token (0: none)
eq_at(text) ==
    IF \E i \in 1..Len(text) : text[i] = "="
    THEN CHOOSE i \in 1..Len(text) : text[i] = "=" /\ \A j \in 1..(i - 1) : text[j] # "="
    ELSE 0

\* step_varkey, after its loop
varkey_end(st, arg, _result) ==
    IF _result # <<>> THEN [st EXCEPT !.result = Put(@, arg.name, DictVal(_result))]
    ELSE IF arg.default # EmptyVal \/ arg.flag = "*"
    THEN [st EXCEPT !.result = Put(@, arg.name, DictVal(<<>>))]
    ELSE [st EXCEPT !.exc = "ArgumentMissing"]

\* step_varkey(argv, slot, result), _result and cnt being its locals
RECURSIVE step_varkey(_, _, _, _, _)

varkey_value(st, arg, _result, cnt, pick, r, from, key, res) ==
    IF res.state # "V"
    THEN varkey_end(Logged([st EXCEPT !.argv = argv_rollback(@, r.data, FALSE, pick)],
                           "error", arg.name, from),
                    arg, _result)
    ELSE IF 0 < arg.length /\ arg.length <= cnt + 1
    THEN varkey_end(Logged(st, "valid", arg.name, from), arg,
                    DictPut(_result, key, res.res))
    ELSE step_varkey(Logged(st, "valid", arg.name, from), arg,
                     DictPut(_result, key, res.res), cnt + 1, pick)

varkey_second(st, arg, _result, cnt, pick, r, from, key, r2) ==
    varkey_value([st EXCEPT !.argv = r2.argv], arg, _result, cnt, pick, r, from, key,
                 pattern_validate(arg.value, r2.data, EmptyVal))

varkey_pair(st, arg, _result, cnt, pick, r, from, key, _m_arg) ==
    IF _m_arg # <<>>
    THEN varkey_value(st, arg, _result, cnt, pick, r, from, key,
                      pattern_validate(arg.value, StrVal(_m_arg), EmptyVal))
    ELSE varkey_second(st, arg, _result, cnt, pick, r, from, key,
                       argv_next(st.argv, arg.separators, TRUE))

varkey_token(st, arg, _result, cnt, pick, r, from) ==
    IF IsSpecial(r) THEN Raised(st, r.argv, "SpecialOptionTriggered")
    ELSE IF ~Truthy(r.data) \/ ~r.is_str \/ r.data.s \in argv_param_ids
    THEN varkey_end([st EXCEPT !.argv = argv_rollback(r.argv, r.data, FALSE, pick)],
                    arg, _result)
    ELSE IF r.data.s \in remainders THEN varkey_end([st EXCEPT !.argv = r.argv], arg, _result)
    ELSE IF eq_at(r.data.s) < 2
    THEN varkey_end([st EXCEPT !.argv = argv_rollback(r.argv, r.data, FALSE, pick)],
                    arg, _result)
    ELSE varkey_pair([st EXCEPT !.argv = r.argv], arg, _result, cnt, pick, r, from,
                     SubSeq(r.data.s, 1, eq_at(r.data.s) - 1),
                     SubSeq(r.data.s, eq_at(r.data.s) + 1, Len(r.data.s)))

step_varkey(st, arg, _result, cnt, pick) ==
    IF st.exc # "" THEN st
    ELSE IF st.argv.current_index = st.argv.ndata THEN varkey_end(st, arg, _result)
    ELSE varkey_token(st, arg, _result, cnt, pick, argv_next(st.argv, arg.separators, TRUE),
                      st.argv.current_index)

\* analyse_args: the loop over args.argument.vars_keyword
RECURSIVE step_varkeys(_, _, _)
step_varkeys(st, vars_keyword, pick) ==
    IF st.exc # "" \/ st.stop \/ vars_keyword = <<>> THEN st
    ELSE step_varkeys(step_varkey([st EXCEPT !.argv.context = "Arg"], Head(vars_keyword),
                                  <<>>, 0, pick),
                      Tail(vars_keyword), pick)

\* a tuple built by step_varpos, as the sequence of its items
TupleVal(items) == [t |-> "tuple", s |-> items, n |-> 0]

\* isinstance(default_val, Iterable), and the items tuple(default_val) is made of
Iterable(d) == d.t \in {"list", "tuple", "dict", "str"}
tuple(d) ==
    IF d.t = "str" THEN [i \in 1..Len(d.s) |-> StrVal(<<d.s[i]>>)]
    ELSE IF d.t = "dict" THEN [i \in 1..Len(d.s) |-> StrVal(d.s[i][1])]
    ELSE d.s

\* step_varpos, after its loop, with the default taken whatever the flag is
varpos_end_flag_first(st, arg, _result) ==
    IF _result # <<>> THEN [st EXCEPT !.result = Put(@, arg.name, TupleVal(_result))]
    ELSE IF arg.flag = "*"
    THEN Logged([st EXCEPT !.result = Put(@, arg.name, TupleVal(<<>>))],
                "empty", arg.name, st.argv.current_index)
    ELSE IF arg.default # EmptyVal
    THEN Logged([st EXCEPT !.result =
                     Put(@, arg.name,
                         TupleVal(IF Iterable(arg.default) THEN tuple(arg.default) ELSE <<>>))],
                "empty", arg.name, st.argv.current_index)
    ELSE Logged([st EXCEPT !.exc = "ArgumentMissing"], "empty", arg.name,
                st.argv.current_index)

\* step_varpos, after its loop: the event "empty" records a slot that collected no value
varpos_end(st, arg, _result) ==
    IF _result # <<>> THEN [st EXCEPT !.result = Put(@, arg.name, TupleVal(_result))]
    ELSE IF arg.default # EmptyVal
    THEN Logged([st EXCEPT !.result =
                     Put(@, arg.name,
                         TupleVal(IF Iterable(arg.default) THEN tuple(arg.default) ELSE <<>>))],
                "empty", arg.name, st.argv.current_index)
    ELSE IF arg.flag = "*"
    THEN Logged([st EXCEPT !.result = Put(@, arg.name, TupleVal(<<>>))],
                "empty", arg.name, st.argv.current_index)
    ELSE Logged([st EXCEPT !.exc = "ArgumentMissing"], "empty", arg.name,
                st.argv.current_index)

\* step_varpos(argv, args, slot, result), _result and cnt being its locals
RECURSIVE step_varpos(_, _, _, _, _, _)

varpos_value(st, args, arg, _result, cnt, pick, r, from, res) ==
    IF res.state # "V"
    THEN varpos_end([st EXCEPT !.argv = argv_rollback(r.argv, r.data, FALSE, pick)],
                    arg, _result)
    ELSE IF 0 < arg.length /\ arg.length <= cnt + 1
    THEN varpos_end(Logged([st EXCEPT !.argv = r.argv], "valid", arg.name, from), arg,
                    Append(_result, res.res))
    ELSE step_varpos(Logged([st EXCEPT !.argv = r.argv], "valid", arg.name, from), args, arg,
                     Append(_result, res.res), cnt + 1, pick)

varpos_token(st, args, arg, _result, cnt, pick, r, from) ==
    IF IsSpecial(r) THEN Raised(st, r.argv, "SpecialOptionTriggered")
    ELSE IF ~Truthy(r.data) \/ (r.is_str /\ r.data.s \in argv_param_ids)
    THEN varpos_end([st EXCEPT !.argv = argv_rollback(r.argv, r.data, FALSE, pick)],
                    arg, _result)
    ELSE IF r.is_str /\ r.data.s \in remainders
    THEN varpos_end([st EXCEPT !.argv = r.argv], arg, _result)
    ELSE IF /\ r.is_str
            /\ args.keyword_only # <<>>
            /\ slot_of(args.keyword_only,
                       split_once(pat_name(r.data.s),
                                  {args.keyword_only[i].sep : i \in 1..Len(args.keyword_only)})[1])
               # 0
    THEN varpos_end([st EXCEPT !.argv = argv_rollback(r.argv, r.data, FALSE, pick)],
                    arg, _result)
    ELSE IF /\ r.is_str
            /\ args.vars_keyword # <<>>
            /\ \E i \in 1..Len(r.data.s) : r.data.s[i] = args.vars_keyword[1].sep
    THEN varpos_end([st EXCEPT !.argv = argv_rollback(r.argv, r.data, FALSE, pick)],
                    arg, _result)
    ELSE varpos_value(st, args, arg, _result, cnt, pick, r, from,
                      pattern_validate(arg.value, r.data, EmptyVal))

step_varpos(st, args, arg, _result, cnt, pick) ==
    IF st.exc # "" THEN st
    ELSE IF st.argv.current_index = st.argv.ndata THEN varpos_end(st, arg, _result)
    ELSE varpos_token(st, args, arg, _result, cnt, pick,
                      argv_next(st.argv, arg.separators, TRUE), st.argv.current_index)

\* analyse_args: the loop over args.argument.vars_positional
RECURSIVE step_varposs(_, _, _, _)
step_varposs(st, args, vars_positional, pick) ==
    IF st.exc # "" \/ st.stop \/ vars_positional = <<>> THEN st
    ELSE step_varposs(step_varpos([st EXCEPT !.argv.context = "Arg"], args,
                                  Head(vars_positional), <<>>, 0, pick),
                      args, Tail(vars_positional), pick)

args_keyword(st, args, pick) ==
    IF st.exc # "" \/ st.stop \/ args.keyword_only = <<>> THEN st
    ELSE step_keyword(st, args, 0, pick)

args_return(st) ==
    IF st.exc # "" \/ st.stop THEN st ELSE [st EXCEPT !.argv.context = "None"]

\* arg.value.origin(**result): the object built from the result of the nested Args
Origin(result) == [t |-> "origin", s |-> result, n |-> 0]

\* analyse_args, the unpack slot: t is what the nested analyse_args left or raised;
\* `except Exception` catches whatever it raised
unpacked(st, arg, t) ==
    IF t.exc = ""
    THEN [st EXCEPT !.argv = t.argv, !.log = @ \o t.log,
                    !.result = Put(@, arg.name, Origin(t.result))]
    ELSE IF arg.default # EmptyVal
    THEN [st EXCEPT !.argv = t.argv,
                    !.log = Append(@ \o t.log, [kind |-> "caught", name |-> arg.name,
                                                exc |-> t.exc]),
                    !.result = Put(@, arg.name, arg.default)]
    ELSE IF ~arg.optional
    THEN [st EXCEPT !.argv = t.argv, !.log = @ \o t.log, !.exc = t.exc]
    ELSE [st EXCEPT !.argv = t.argv,
                    !.log = Append(@ \o t.log, [kind |-> "caught", name |-> arg.name,
                                                exc |-> t.exc])]

\* analyse_args(argv, args)
RECURSIVE analyse_args(_, _, _)

\* unpack.separate(*arg.separators) rewrites the nested Args object of the command in
\* place: the log keeps what the object has become
separated(st, arg, unpack) ==
    [st EXCEPT !.log = Append(@, [kind |-> "separate", name |-> arg.name, args |-> unpack])]

args_unpack(st, args, pick) ==
    IF st.exc # "" \/ st.stop \/ args.unpack = <<>> THEN st
    ELSE unpacked(separated(st, args.unpack[1].arg,
                            args_separate(args.unpack[1].args,
                                          args.unpack[1].arg.separators)),
                  args.unpack[1].arg,
                  analyse_args(st.argv,
                               args_separate(args.unpack[1].args, args.unpack[1].arg.separators),
                               pick))

analyse_args(v, args, pick) ==
    args_return(step_varkeys(args_keyword(step_varposs(args_unpack(analyse_normal(ArgsState(v),
                                                                                  args.normal,
                                                                                  pick),
                                                                   args, pick),
                                                       args, args.vars_positional, pick),
                                          args, pick),
                             args.vars_keyword, pick))

(***************************************************************************)
(* _internal/_handlers.py: options                                         *)
(***************************************************************************)
OptionResult(value, args) == [value |-> value, args |-> args]

\* what handle_option returns or raises
Handled(v, exc, opt, res, log) ==
    [argv |-> v, exc |-> exc, dest |-> opt.dest, res |-> res, log |-> log]

option_with_args(opt, st) ==
    Handled(st.argv, st.exc, opt, OptionResult(NoneVal, st.result), st.log)

\* handle_option, its return statement: the Args of the option, or _cnt or action.value
option_value(v, opt, _cnt, pick) ==
    IF opt.nargs # 0 THEN option_with_args(opt, analyse_args(v, opt.args, pick))
    ELSE Handled(v, "", opt,
                 OptionResult(IF _cnt # 0 THEN IntVal(_cnt) ELSE opt.action.value, EmptyDict),
                 <<>>)

\* the first alias a count option's name is made of: the name starts with it and the
\* length of the name is a multiple of its length, dashes apart (0: none)
count_alias(name, aliases) ==
    LET hit == { i \in 1..Len(aliases) :
                   /\ StartsWith(name, aliases[i])
                   /\ Len(strip_dashes(name)) % Len(strip_dashes(aliases[i])) = 0 }
    IN  IF hit = {} THEN 0 ELSE CHOOSE i \in hit : \A j \in hit : i <= j

\* the outcome of matching the name: the stream, the count read from the name, the error
Named(v, _cnt, exc) == [argv |-> v, cnt |-> _cnt, exc |-> exc]

\* handle_option without trigger: the name is read and matched
option_named(opt, pick, r) ==
    IF ~r.is_str THEN Named(r.argv, 0, "TypeError")
    ELSE IF opt.compact
    THEN (IF first_alias(r.data.s, opt.aliases) # 0
          THEN Named(argv_rollback(r.argv,
                         StrVal(SubSeq(r.data.s,
                                       Len(opt.aliases[first_alias(r.data.s, opt.aliases)]) + 1,
                                       Len(r.data.s))),
                         TRUE, pick),
                     0, "")
          ELSE Named(r.argv, 0, "InvalidParam"))
    ELSE IF opt.action.type = 2
    THEN (IF count_alias(r.data.s, opt.aliases) # 0
          THEN Named(r.argv,
                     Len(strip_dashes(r.data.s))
                     \div Len(strip_dashes(opt.aliases[count_alias(r.data.s, opt.aliases)])),
                     "")
          ELSE Named(r.argv, 0, "InvalidParam"))
    ELSE IF r.data.s \in Range(opt.aliases) THEN Named(r.argv, 0, "")
    ELSE Named(r.argv, 0, "InvalidParam")

option_matched(opt, pick, m) ==
    IF m.exc # "" THEN Handled(m.argv, m.exc, opt, OptionResult(NoneVal, EmptyDict), <<>>)
    ELSE option_value(m.argv, opt, m.cnt, pick)

\* handle_option(argv, opt, trigger), <<>> being no trigger
handle_option(v, opt, trigger, pick) ==
    option_matched(opt, pick,
        IF trigger # <<>> THEN Named([v EXCEPT !.context = "Option"], 0, "")
        ELSE option_named(opt, pick,
                          argv_next([v EXCEPT !.context = "Option"], opt.separators, TRUE)))

\* handle_action, append with args: every arg of target goes to the list of source
RECURSIVE append_args(_, _, _)
append_args(source_args, target_args, keys) ==
    IF keys = {} THEN source_args
    ELSE LET key == CHOOSE k \in keys : TRUE
         IN  append_args(
                 Put(source_args, key,
                     IF key \in DOMAIN source_args
                     THEN ListVal(Append(source_args[key].s, target_args[key]))
                     ELSE ListVal(<<target_args[key]>>)),
                 target_args, keys \ {key})

\* handle_action that keeps the latest occurrence only
handle_action_replacing(param, source, target) == target

\* handle_action(param, source, target)
handle_action(param, source, target) ==
    IF param.action.type = 0 THEN target
    ELSE IF param.action.type = 2
    THEN (IF param.nargs = 0
          THEN [source EXCEPT !.value = IntVal(source.value.n + target.value.n)]
          ELSE target)
    ELSE IF param.nargs = 0
    THEN [source EXCEPT !.value = ListVal(source.value.s \o target.value.s)]
    ELSE [source EXCEPT !.args = append_args(@, target.args, DOMAIN target.args)]

\* analyse_option without the wrapping of the first occurrence
wrap_args_plain(opt, opt_v) == opt_v

\* analyse_option, the first occurrence of an append option: every arg is wrapped
wrap_args(opt, opt_v) ==
    IF opt.action.type = 1
    THEN [opt_v EXCEPT !.args = [key \in DOMAIN opt_v.args |-> ListVal(<<opt_v.args[key]>>)]]
    ELSE opt_v

\* analyse_option after handle_option
option_stored(options_result, opt, h) ==
    [argv |-> h.argv, exc |-> h.exc, log |-> h.log, hit |-> h.exc = "",
     occ |-> IF h.exc # "" THEN <<>>
             ELSE <<[dest |-> h.dest, res |-> h.res, type |-> opt.action.type,
                     nargs |-> opt.nargs]>>,
     options_result |->
        IF h.exc # "" THEN options_result
        ELSE IF h.dest \notin DOMAIN options_result
        THEN Put(options_result, h.dest, wrap_args(opt, h.res))
        ELSE Put(options_result, h.dest, handle_action(opt, options_result[h.dest], h.res))]

\* analyse_option(analyser, argv, opt, trigger)
analyse_option(options_result, v, opt, trigger, pick) ==
    option_stored(options_result, opt, handle_option(v, opt, trigger, pick))

(***************************************************************************)
(* _internal/_handlers.py: the dispatch of one token                       *)
(***************************************************************************)
\* analyse_compact_params(analyser, argv): every compact param is tried on a snapshot
RECURSIVE analyse_compact_params(_, _, _, _)

compact_tried(options_result, v, params, pick, t) ==
    IF t.exc = "InvalidParam" /\ t.argv.context # "Arg"
    THEN analyse_compact_params(options_result, argv_data_reset(t.argv, argv_data_set(v)),
                                Tail(params), pick)
    ELSE t

analyse_compact_params(options_result, v, params, pick) ==
    IF params = <<>>
    THEN [argv |-> v, exc |-> "", log |-> <<>>, hit |-> FALSE, occ |-> <<>>,
          options_result |-> options_result]
    ELSE compact_tried(options_result, v, params, pick,
                       analyse_option(options_result, v, Head(params), <<>>, pick))

\* what analyse_param returns (ret) or raises (exc), and what it leaves
Param(v, exc, ret, branch, options_result, args_result, log, occ) ==
    [argv |-> v, exc |-> exc, ret |-> ret, branch |-> branch, occ |-> occ,
     options_result |-> options_result, args_result |-> args_result, log |-> log]

ContextNone(v) == [v EXCEPT !.context = "None"]

\* analyse_param, from the main Args on: st is what analyse_args gives on v
param_args(pr, v, st) ==
    IF ArgsLen(self_args) # 0 /\ pr.args_result = EmptyDict
    THEN (IF st.exc # ""
          THEN Param(st.argv, st.exc, FALSE, "args", pr.options_result, pr.args_result,
                     st.log, <<>>)
          ELSE IF st.result # EmptyDict
          THEN Param(ContextNone(st.argv), "", TRUE, "args", pr.options_result, st.result,
                     st.log, <<>>)
          ELSE Param(st.argv, "", FALSE, "none", pr.options_result, st.result, st.log,
                     <<>>))
    ELSE Param(v, "", FALSE, "none", pr.options_result, pr.args_result, <<>>, <<>>)

\* analyse_param, after analyse_compact_params gave t
param_compact(pr, pick, t) ==
    IF t.exc # ""
    THEN Param(t.argv, t.exc, FALSE, "compact", pr.options_result, pr.args_result, t.log,
               <<>>)
    ELSE IF t.hit
    THEN Param(ContextNone(t.argv), "", TRUE, "compact", t.options_result, pr.args_result,
               t.log, t.occ)
    ELSE param_args(pr, t.argv, analyse_args(t.argv, self_args, pick))

\* analyse_param, after analyse_option gave t for the option the token names
param_option(pr, t) ==
    Param(IF t.exc = "" THEN ContextNone(t.argv) ELSE t.argv, t.exc, t.exc = "", "option",
          t.options_result, pr.args_result, t.log, t.occ)

\* analyse_param looking up compile_params before the special keywords
param_token_option_first(pr, pick, r) ==
    IF r.is_str /\ compile_params(r.data.s) # 0
    THEN param_option(pr, analyse_option(pr.options_result, r.argv,
                                         options[compile_params(r.data.s)], r.data.s, pick))
    ELSE Param(r.argv, "SpecialOptionTriggered", FALSE, "special", pr.options_result,
               pr.args_result, <<>>, <<>>)

param_token(pr, pick, r) ==
    IF IsSpecial(r)
    THEN Param(r.argv, "SpecialOptionTriggered", FALSE, "special", pr.options_result,
               pr.args_result, <<>>, <<>>)
    ELSE IF r.is_str /\ compile_params(r.data.s) # 0
    THEN param_option(pr, analyse_option(pr.options_result, r.argv,
                                         options[compile_params(r.data.s)], r.data.s, pick))
    ELSE param_compact(pr, pick,
             analyse_compact_params(pr.options_result,
                                    argv_rollback(r.argv, r.data, FALSE, pick),
                                    compact_params, pick))

\* analyse_param(analyser, argv)
analyse_param(pr, v, pick) == param_token(pr, pick, argv_next(v, {}, TRUE))

(***************************************************************************)
(* Inputs of the stream model                                              *)
(***************************************************************************)
Units ==
    { StrVal(<<"a", " ", "b">>),        \* "a b"
      StrVal(<<"k", "=", "v">>),        \* "k=v"
      StrVal(<<"=", "v", " ", "c">>),   \* "=v c"
      StrVal(<<" ">>),                  \* " "
      ObjVal(1) }

Messages == UNION { [1..n -> Units] : n \in 1..MaxUnits }

\* the separate arguments next_data is called with
Separates == { {}, {"="}, {" "} }

\* rest: the tokens of the message the callers have not consumed, kept beside the
\* analyser; plain: every token was taken whole (no sub-split on custom separators)
NoOp == [op |-> "none", pre |-> reset, data |-> StrVal(<<>>), is_str |-> TRUE,
         separate |-> {}, pop |-> TRUE, result |-> <<>>,
         rest |-> <<>>, plain |-> TRUE, matched |-> TRUE, param |-> <<>>]

\* the tokens of raw_data: the items of the split segments and the units, in order
RECURSIVE data_tokens(_)
data_tokens(raw_data) ==
    IF raw_data = <<>> THEN <<>>
    ELSE (IF Head(raw_data).list
          THEN [i \in 1..Len(Head(raw_data).items) |-> StrVal(Head(raw_data).items[i])]
          ELSE <<Head(raw_data).unit>>)
         \o data_tokens(Tail(raw_data))

SubIdle ==
    [pc |-> "idle", part |-> 0, args_done |-> FALSE, args |-> EmptyDict, options |-> EmptyDict,
     found |-> <<>>, exc |-> "", error_data |-> <<>>]

HdrIdle ==
    [pc |-> "idle", gen |-> "none", header |-> <<>>, fuzzy |-> FALSE, tokens |-> <<>>,
     res |-> <<>>, exc |-> "", msg |-> <<>>, head_matched |-> FALSE]

\* no command is registered with the manager
ScIdle ==
    [pc |-> "idle", target |-> <<>>, display |-> <<>>, match |-> <<>>, adds |-> 0,
     op |-> "none", key |-> <<>>, source |-> <<>>, err |-> "", input |-> <<>>,
     found |-> <<>>, raw_data |-> <<>>, pre |-> <<>>]

\* CommandManager.__init__
SplIdle ==
    [op |-> "none", text |-> <<>>, separates |-> {}, result |-> <<>>, once |-> <<>>,
     released |-> <<>>]

CmpIdle ==
    [ctx |-> FALSE, op |-> "none", trigger |-> <<>>, context |-> "None", got |-> {},
     res |-> <<>>, exc |-> "", payload |-> <<>>,
     sent |-> <<>>, returned |-> FALSE, matched |-> TRUE, error_info |-> ""]

SisIdle ==
    [pc |-> "idle", desc |-> "", runes |-> <<>>, ahead |-> <<>>, traverses |-> <<>>,
     determined |-> FALSE, grammar |-> [header |-> 0, option |-> 0, pair |-> 0],
     ev |-> [kind |-> "none", token |-> <<>>, pointer |-> "", soft |-> FALSE,
             mix |-> FALSE, track |-> FALSE, pointer_val |-> <<>>, ref |-> <<>>,
             option_traverses |-> <<>>, runes |-> <<>>, ahead |-> <<>>]]

LruIdle ==
    [o |-> [max_size |-> 0, cache |-> <<>>, record |-> {}, size |-> 0],
     op |-> "none", key |-> "", value |-> 0,
     pre |-> [max_size |-> 0, cache |-> <<>>, record |-> {}, size |-> 0],
     err |-> "", ret |-> 0,
     threads |-> [t \in {1, 2} |->
                     [pc |-> "idle", op |-> "none", key |-> "", value |-> 0, k |-> "",
                      err |-> "", late |-> FALSE, ret |-> 0]]]

BhvIdle ==
    [op |-> "none", interface |-> <<>>, pre |-> <<>>, exc |-> "",
     self |-> [_default |-> [t |-> "missing", s |-> <<>>, n |-> 0],
               _default_factory |-> [t |-> "missing", s |-> <<>>, n |-> 0], path |-> <<>>]]

CptIdle ==
    [pc |-> "idle", tokens |-> <<>>, params |-> <<>>, options_result |-> EmptyDict,
     subcommands_result |-> EmptyDict, exc |-> "", ret |-> FALSE,
     ev |-> [kind |-> "none", class |-> "", exc |-> "", options_result |-> EmptyDict,
             subcommands_result |-> EmptyDict]]

AlcIdle ==
    [op |-> "none", options |-> <<>>, namespace |-> {}, user |-> {}, pre |-> <<>>]

MgrIdle ==
    [commands |-> <<>>, argv |-> {}, analysers |-> {}, current_count |-> 0, op |-> "none",
     err |-> "", pre |-> <<>>, command |-> <<>>]

PrsIdle ==
    [pc |-> "idle", tokens |-> <<>>, options_result |-> EmptyDict, args_result |-> EmptyDict,
     exc |-> "", branch |-> "none", log |-> <<>>, pre |-> ArgvNew,
     pre_options |-> EmptyDict, occ |-> <<>>, occs |-> <<>>, unpacks |-> unpacks]

notStream == <<sub, argv, prs, hdr, sc, mgr, spl, cmp, sis, lru, bhv, cpt, alc>>
notParts == <<argv, prs, hdr, sc, mgr, spl, cmp, sis, lru, bhv, cpt, alc>>
notParse == <<analyser, last, sub, hdr, sc, mgr, spl, cmp, sis, lru, bhv, cpt, alc>>

InitStream ==
    /\ analyser = reset
    /\ last = NoOp
    /\ sub = SubIdle
    /\ argv = ArgvNew
    /\ prs = PrsIdle
    /\ hdr = HdrIdle
    /\ sc = ScIdle
    /\ mgr = MgrIdle
    /\ spl = SplIdle
    /\ cmp = CmpIdle
    /\ sis = SisIdle
    /\ lru = LruIdle
    /\ bhv = BhvIdle
    /\ cpt = CptIdle
    /\ alc = AlcIdle

Running == analyser.err = "" /\ ~analyser.fail

\* a parse begins: the message is split into raw_data
ProcessMessage ==
    /\ analyser.ndata = 0 /\ Running
    /\ \E data \in Messages :
       \E a \in { process_message(analyser, data) } :
          /\ analyser' = a
          /\ last' = [NoOp EXCEPT !.op = "process_message", !.pre = analyser,
                                  !.rest = data_tokens(a.raw_data)]
    /\ UNCHANGED notStream

\* a caller asks for the next datum, with pop (consume) or without (peek)
NextData ==
    /\ analyser.ndata > 0 /\ Running
    /\ \E separate \in Separates, pop \in BOOLEAN :
          LET r == next_data(analyser, separate, pop)
          IN  /\ analyser' = r.a
              /\ last' = [NoOp EXCEPT !.op = "next_data", !.pre = analyser, !.data = r.data,
                                      !.is_str = r.is_str, !.separate = separate, !.pop = pop,
                                      !.rest = IF pop /\ Truthy(r.data) /\ last.rest # <<>>
                                               THEN Tail(last.rest) ELSE last.rest,
                                      !.plain = last.plain
                                                /\ (~pop \/ separate \subseteq separators)]
    /\ UNCHANGED notStream

\* a caller puts back the datum it has just taken
ReduceData ==
    /\ analyser.ndata > 0 /\ Running
    /\ last.op = "next_data" /\ last.pop
    /\ \E pick \in (IF analyser.temporary_data = {} THEN {" "} ELSE analyser.temporary_data) :
          /\ analyser' = reduce_data(analyser, last.data, FALSE, pick)
          /\ last' = [last EXCEPT !.op = "reduce_data",
                                  !.rest = IF Truthy(last.data) THEN <<last.data>> \o @ ELSE @]
    /\ UNCHANGED notStream

\* the rest of the data is released (error_data, AllParam)
RecoverRawData ==
    /\ analyser.ndata > 0 /\ Running
    /\ \E pick \in separators :
          LET r == recover_raw_data(analyser, pick)
          IN  /\ analyser' = r.a
              /\ last' = [NoOp EXCEPT !.op = "recover_raw_data", !.pre = analyser,
                                      !.result = r.result, !.plain = last.plain]
    /\ UNCHANGED notStream

\* an Args made of one AllParam slot absorbs the rest of the data
AbsorbAllParam ==
    /\ analyser.ndata > 0 /\ Running
    /\ \E pick \in separators :
          LET r == parts_analyse_args(analyser,
                       <<OldArg("rest", "AllParam", NoneVal, FALSE)>>, EmptyDict, pick)
          IN  /\ analyser' = (IF r.exc = "ArgumentMissing" THEN [r.a EXCEPT !.fail = TRUE] ELSE r.a)
              /\ last' = [NoOp EXCEPT !.op = "analyse_args", !.pre = analyser,
                                      !.result = IF "rest" \in DOMAIN r.args
                                                 THEN r.args["rest"].s ELSE <<>>,
                                      !.plain = last.plain]
    /\ UNCHANGED notStream

\* a failure is raised between two operations of the stream and reaches the top of the
\* parse, which exports the failed result
Export ==
    /\ analyser.ndata > 0 /\ Running
    /\ \E pick \in separators :
       \E r \in { export_fail(analyser, pick) } :
          /\ analyser' = r.a
          /\ last' = [NoOp EXCEPT !.op = "export", !.pre = analyser, !.result = r.error_data,
                                  !.matched = r.matched, !.rest = last.rest,
                                  !.plain = last.plain]
    /\ UNCHANGED notStream

NextStream ==
    ProcessMessage \/ NextData \/ ReduceData \/ RecoverRawData \/ AbsorbAllParam \/ Export

SpecStream == InitStream /\ [][NextStream]_vars

(***************************************************************************)
(* analysis/parts.analyse_subcommand on the Analyser stream: a subcommand  *)
(* "sub" with an optional Args slot and three options, two of them of the  *)
(* same name (tried one after the other).                                  *)
(***************************************************************************)
SubParam ==
    [name |-> <<"s", "u", "b">>, separators |-> {" "},
     args |-> <<OldArg("m", "str", NoneVal, TRUE)>>, nargs |-> 1,
     sub_params |->
        << << OldOption(<<"-", "f">>, TRUE, <<OldArg("x", "int", NoneVal, FALSE)>>),
              OldOption(<<"-", "f">>, TRUE, <<OldArg("y", "str", NoneVal, FALSE)>>) >>,
           << OldOption(<<"-", "o">>, FALSE, <<OldArg("n", "int", NoneVal, FALSE)>>) >> >>,
     sub_part_len |-> 4]

PartTokens ==
    { <<"-", "f", "B">>, <<"-", "f", "1">>, <<"-", "f", "f", "1">>, <<"-", "o">>, <<"1">>,
      <<"B">> }

PartHeads == { <<"s", "u", "b">>, <<"B">> }

\* one string message: a head and up to MaxPartTokens tokens, separated by spaces
PartsMessages ==
    { <<StrVal(join(<<h>> \o toks, " "))>> :
        h \in PartHeads, toks \in UNION { [1..n -> PartTokens] : n \in 0..MaxPartTokens } }

InitParts ==
    /\ analyser = reset
    /\ last = NoOp
    /\ sub = SubIdle
    /\ argv = ArgvNew
    /\ prs = PrsIdle
    /\ hdr = HdrIdle
    /\ sc = ScIdle
    /\ mgr = MgrIdle
    /\ spl = SplIdle
    /\ cmp = CmpIdle
    /\ sis = SisIdle
    /\ lru = LruIdle
    /\ bhv = BhvIdle
    /\ cpt = CptIdle
    /\ alc = AlcIdle

PartsProcess ==
    /\ sub.pc = "idle"
    /\ \E data \in PartsMessages :
          /\ analyser' = process_message(analyser, data)
          /\ last' = [NoOp EXCEPT !.op = "process_message", !.pre = analyser]
    /\ sub' = [sub EXCEPT !.pc = "name"]
    /\ UNCHANGED notParts

\* analyse_subcommand: the subcommand's own name
SubName ==
    /\ sub.pc = "name"
    /\ LET r == next_data(analyser, SubParam.separators, TRUE)
       IN  /\ analyser' = r.a
           /\ last' = [NoOp EXCEPT !.op = "next_data", !.pre = analyser, !.data = r.data,
                                   !.is_str = r.is_str, !.separate = SubParam.separators]
           /\ sub' = IF r.data = StrVal(SubParam.name)
                     THEN [sub EXCEPT !.pc = "part"]
                     ELSE [sub EXCEPT !.pc = "raised", !.exc = "ParamsUnmatched"]
    /\ UNCHANGED notParts

\* analyse_subcommand: the Args of the subcommand, res being analyse_args' outcome
sub_args(s, res) ==
    IF res.exc # ""
    THEN [s EXCEPT !.pc = "raised", !.exc = res.exc]
    ELSE [s EXCEPT !.args = res.args, !.args_done = TRUE, !.part = @ + 1]

\* analyse_subcommand: one round of the loop over sub_part_len, sp being what
\* analyse_params found and res what analyse_args gives after it
sub_part(s, sp, res) ==
    IF sp.kind = "list"
    THEN [a |-> sp.a, sub |-> [s EXCEPT !.pc = "try", !.found = sp.found],
          op |-> "analyse_params"]
    ELSE IF ~s.args_done
    THEN [a |-> res.a, sub |-> sub_args(s, res), op |-> "analyse_args"]
    ELSE [a |-> sp.a, sub |-> [s EXCEPT !.part = @ + 1], op |-> "analyse_params"]

sub_part_peeked(s, pick, sp) ==
    sub_part(s, sp, parts_analyse_args(sp.a, SubParam.args, EmptyDict, pick))

\* analyse_subcommand: one round of the loop over sub_part_len, up to the choice of
\* the options to try
SubPart ==
    /\ sub.pc = "part" /\ sub.part < SubParam.sub_part_len
    /\ \E pick \in separators :
       \E t \in { sub_part_peeked(sub, pick,
                                  parts_analyse_params(analyser, SubParam.sub_params)) } :
          /\ analyser' = t.a
          /\ sub' = t.sub
          /\ last' = [NoOp EXCEPT !.op = t.op, !.pre = analyser]
    /\ UNCHANGED notParts

\* the restore of analyse_subcommand's except clause
parts_restore(a, _current_index, _content_index) ==
    [a EXCEPT !.current_index = _current_index, !.content_index = _content_index]

\* analyse_subcommand: the try/except around one analyse_option, r being its outcome
try_option(a, s, r) ==
    IF r.exc = ""
    THEN [a |-> r.a,
          sub |-> [s EXCEPT !.pc = "part", !.part = @ + 1, !.found = <<>>, !.exc = "",
                            !.options = IF r.dest \in DOMAIN s.options
                                        THEN @ ELSE Put(@, r.dest, r.args)]]
    ELSE [a |-> parts_restore(r.a, a.current_index, a.content_index),
          sub |-> [s EXCEPT !.found = Tail(@), !.exc = r.exc,
                            !.pc = IF Tail(s.found) = <<>> THEN "raised" ELSE "try"]]

\* analyse_subcommand: one option of the list is tried; a failure restores the indices
\* and goes on to the next option, the last failure is raised
TryOption ==
    /\ sub.pc = "try"
    /\ \E pick \in separators :
       \E r \in { parts_analyse_option(analyser, Head(sub.found), pick) } :
       \E t \in { try_option(analyser, sub, r) } :
          /\ analyser' = t.a
          /\ sub' = t.sub
          /\ last' = [NoOp EXCEPT !.op = "try_option", !.pre = analyser,
                                  !.param = Head(sub.found), !.data = r.pushed]
    /\ UNCHANGED notParts

\* analyse_subcommand: after the loop
SubEnd ==
    /\ sub.pc = "part" /\ sub.part = SubParam.sub_part_len
    /\ sub' = IF SubParam.nargs > 0 /\ ~sub.args_done
              THEN [sub EXCEPT !.pc = "raised", !.exc = "ArgumentMissing"]
              ELSE [sub EXCEPT !.pc = "done"]
    /\ UNCHANGED <<analyser, last>>
    /\ UNCHANGED notParts

\* the failure reaches the top of the parse, which exports the failed result
ExportFail ==
    /\ sub.pc = "raised"
    /\ \E pick \in separators :
          LET r == export_fail(analyser, pick)
          IN  /\ analyser' = r.a
              /\ sub' = [sub EXCEPT !.pc = "failed", !.error_data = r.error_data]
              /\ last' = [NoOp EXCEPT !.op = "export", !.pre = analyser]
    /\ UNCHANGED notParts

NextParts == PartsProcess \/ SubName \/ SubPart \/ TryOption \/ SubEnd \/ ExportFail

SpecParts == InitParts /\ [][NextParts]_vars

(***************************************************************************)
(* The parse of the _internal/ handlers: a command line is built into the  *)
(* Argv, then analyse_param is called until it returns false, raises, or   *)
(* the data is exhausted.                                                  *)
(***************************************************************************)
Chars(str) ==
    CASE str = "-a" -> <<"-", "a">>     [] str = "-v" -> <<"-", "v">>
      [] str = "-vv" -> <<"-", "v", "v">>  [] str = "-vvv" -> <<"-", "v", "v", "v">>
      [] str = "-w" -> <<"-", "w">>     [] str = "-ww" -> <<"-", "w", "w">>
      [] str = "-c" -> <<"-", "c">>     [] str = "-l" -> <<"-", "l">>
      [] str = "-f" -> <<"-", "f">>     [] str = "-f1" -> <<"-", "f", "1">>
      [] str = "-fx" -> <<"-", "f", "x">>  [] str = "-k" -> <<"-", "k">>
      [] str = "-u" -> <<"-", "u">>     [] str = "-g" -> <<"-", "g">>
      [] str = "-p" -> <<"-", "p">>     [] str = "-r" -> <<"-", "r">>
      [] str = "k=2" -> <<"k", "=", "2">>  [] str = "j=1" -> <<"j", "=", "1">>
      [] str = "-q" -> <<"-", "q">>     [] str = "k=1" -> <<"k", "=", "1">>
      [] str = "k=x" -> <<"k", "=", "x">>  [] str = "k=" -> <<"k", "=">>
      [] str = "a=1" -> <<"a", "=", "1">>  [] str = "a=" -> <<"a", "=">>
      [] str = "--help" -> <<"-", "-", "h", "e", "l", "p">>
      [] str = "1" -> <<"1">>           [] str = "2" -> <<"2">>
      [] str = "x" -> <<"x">>           [] str = "sub" -> <<"s", "u", "b">>

\* the command lines are made of the tokens of one family
Families ==
    { {"-a", "1", "2"},
      {"-v", "-vv", "-vvv", "-w", "-ww"},
      {"-c", "-l", "1", "2"},
      {"-k", "k=1", "k=x", "k=", "x"},
      {"-q", "a=1", "a=", "x"},
      {"-a", "--help", "1", "x"},
      {"-f", "-f1", "-fx", "1"},
      {"-u", "--help", "1", "x"},
      {"-g", "k=1", "k=2", "j=1"},
      {"-p", "-r", "1", "x"} }

ParseInputs ==
    UNION { UNION { [1..n -> { Chars(str) : str \in F }] : n \in 1..MaxTokens } : F \in Families }

InitParse ==
    /\ analyser = reset
    /\ last = NoOp
    /\ sub = SubIdle
    /\ argv = ArgvNew
    /\ prs = PrsIdle
    /\ hdr = HdrIdle
    /\ sc = ScIdle
    /\ mgr = MgrIdle
    /\ spl = SplIdle
    /\ cmp = CmpIdle
    /\ sis = SisIdle
    /\ lru = LruIdle
    /\ bhv = BhvIdle
    /\ cpt = CptIdle
    /\ alc = AlcIdle

\* the command line is handed to the Argv
Build ==
    /\ prs.pc = "idle"
    /\ \E tokens \in ParseInputs, ns \in Namespaces :
          /\ argv' = [argv_build(<<StrVal(join(tokens, " "))>>) EXCEPT !.disabled = ns]
          /\ prs' = [PrsIdle EXCEPT !.pc = "loop", !.tokens = tokens]
    /\ UNCHANGED notParse

\* the loop around analyse_param: it goes on while analyse_param returns true and data
\* is left
\* the nested Args objects after the calls of Args.separate the log holds
RECURSIVE separate_all(_, _)
separate_all(held, log) ==
    IF log = <<>> THEN held
    ELSE separate_all(IF Head(log).kind = "separate"
                      THEN [i \in DOMAIN held |->
                               IF held[i] # <<>> /\ held[i][1].arg.name = Head(log).name
                               THEN <<[held[i][1] EXCEPT !.args = Head(log).args]>>
                               ELSE held[i]]
                      ELSE held,
                      Tail(log))

looped(s, v, t) ==
    [s EXCEPT !.unpacks = separate_all(@, t.log), !.pc = IF t.exc # "" THEN "raised"
                     ELSE IF t.ret /\ t.argv.current_index # t.argv.ndata THEN "loop"
                     ELSE "done",
              !.options_result = t.options_result, !.args_result = t.args_result,
              !.exc = t.exc, !.branch = t.branch, !.log = t.log,
              !.pre = v, !.pre_options = s.options_result,
              !.occ = t.occ, !.occs = @ \o t.occ]

\* one call of analyse_param
AnalyseParam ==
    /\ prs.pc = "loop"
    /\ \E pick \in separators :
       \E t \in { analyse_param(prs, argv, pick) } :
          /\ argv' = t.argv
          /\ prs' = looped(prs, argv, t)
    /\ UNCHANGED notParse

\* the whole parse of a command line: the loop run to its end
RECURSIVE loop(_, _, _)

loop_step(s, v, pick, t) == loop(looped(s, v, t), t.argv, pick)

loop(s, v, pick) ==
    IF s.pc # "loop" THEN [prs |-> s, argv |-> v]
    ELSE loop_step(s, v, pick, analyse_param(s, v, pick))

parse(tokens) ==
    loop([PrsIdle EXCEPT !.pc = "loop", !.tokens = tokens],
         argv_build(<<StrVal(join(tokens, " "))>>), " ")

NextParse == Build \/ AnalyseParam

SpecParse == InitParse /\ [][NextParse]_vars

(***************************************************************************)
(* _internal/_header.py and _internal/_handlers.analyse_header: the header *)
(* of a command whose name is a plain string and whose prefixes are        *)
(* strings.  The streams hold strings only; the branches of analyse_header *)
(* for a head that is not a string are outside the model.                  *)
(***************************************************************************)
\* Pattern.match(text) for a pattern text made of literal characters, of ".", which
\* stands for any character, and of characters escaped by a backslash: the length of the
\* match at the beginning of text (-1: none)
RECURSIVE re_scan(_, _, _)
re_scan(pattern, text, n) ==
    IF pattern = <<>> THEN n
    ELSE IF text = <<>> THEN -1
    ELSE IF Head(pattern) = "\\" /\ Len(pattern) >= 2
    THEN (IF pattern[2] = Head(text) THEN re_scan(Tail(Tail(pattern)), Tail(text), n + 1)
          ELSE -1)
    ELSE IF Head(pattern) = "." \/ Head(pattern) = Head(text)
    THEN re_scan(Tail(pattern), Tail(text), n + 1)
    ELSE -1

re_match(pattern, text) == re_scan(pattern, text, 0)

\* re.escape(text): a backslash before every character that is special in a pattern
RegexSpecial == {".", "\\", "*", "+", "?", "{", "}", "(", ")", "[", "]", "^", "$", "|"}

RECURSIVE re_escape(_)
re_escape(text) ==
    IF text = <<>> THEN <<>>
    ELSE (IF Head(text) \in RegexSpecial THEN <<"\\", Head(text)>> ELSE <<Head(text)>>)
         \o re_escape(Tail(text))

\* Header.generate(command, prefixes, compact) for a command without braces: the content
\* is the set of the texts prefix + command, the compact pattern is
\* ^(?:p1|p2|..)command, the prefixes escaped and the command as it is
generate(command, prefixes, compact) ==
    [origin |-> [command |-> command, prefixes |-> prefixes],
     content |-> IF prefixes = <<>> THEN {command}
                 ELSE { prefixes[i] \o command : i \in 1..Len(prefixes) },
     compact |-> compact,
     compact_pattern |-> [prefixes |-> prefixes, command |-> command]]

\* header.compact_pattern.match(head_text): the length of mat[0] (-1: no match); the
\* alternatives are tried in the order of the prefixes
compact_pattern_match(cp, text) ==
    IF cp.prefixes = <<>> THEN re_match(cp.command, text)
    ELSE LET ok == { i \in 1..Len(cp.prefixes) :
                       /\ StartsWith(text, cp.prefixes[i])
                       /\ re_match(cp.command,
                                   SubSeq(text, Len(cp.prefixes[i]) + 1, Len(text))) >= 0 }
             first == CHOOSE i \in ok : \A j \in ok : i <= j
         IN  IF ok = {} THEN -1
             ELSE Len(cp.prefixes[first])
                  + re_match(cp.command,
                             SubSeq(text, Len(cp.prefixes[first]) + 1, Len(text)))

\* HeadResult(origin, result, matched, groups): groups is empty when none is given
HeadResult(origin, result, matched, groups) ==
    [origin |-> origin, result |-> result, matched |-> matched, groups |-> groups]

Headed(v, res, exc, msg) == [argv |-> v, res |-> res, exc |-> exc, msg |-> msg]

\* _handle_fuzzy: the first header text close enough to the input; the message is
\* formatted with target = the input and source = the header text (<<>>: none is close)
_handle_fuzzy(header, source) ==
    LET headers_text == IF header.origin.prefixes = <<>> THEN <<header.origin.command>>
                        ELSE [i \in 1..Len(header.origin.prefixes) |->
                                 header.origin.prefixes[i] \o header.origin.command]
        close == { i \in 1..Len(headers_text) : levenshtein_close(source, headers_text[i]) }
    IN  IF close = {} THEN <<>>
        ELSE [target |-> source,
              source |-> headers_text[CHOOSE i \in close : \A j \in close : i <= j]]

\* analyse_header, no match: the second token is put back, then the fuzzy match
header_failed(header, fuzzy_match, head_text, v, msg) ==
    IF fuzzy_match /\ msg # <<>> THEN Headed(v, <<>>, "FuzzyMatchSuccess", msg)
    ELSE Headed(v, <<>>, "InvalidParam", <<>>)

header_second(header, fuzzy_match, head_text, m) ==
    header_failed(header, fuzzy_match, head_text, argv_rollback(m.argv, m.data, FALSE, " "),
                  _handle_fuzzy(header, head_text))

\* analyse_header, the head being a string: the exact match, then the compact match,
\* which puts the text after mat[0] back in the place of the token
header_first(header, fuzzy_match, r, n) ==
    IF r.data.s \in header.content
    THEN Headed(r.argv, HeadResult(r.data.s, r.data.s, TRUE, EmptyDict), "", <<>>)
    ELSE IF header.compact /\ n >= 0
    THEN Headed(argv_rollback(r.argv, StrVal(SubSeq(r.data.s, n + 1, Len(r.data.s))),
                              TRUE, " "),
                HeadResult(SubSeq(r.data.s, 1, n), SubSeq(r.data.s, 1, n), TRUE, EmptyDict),
                "", <<>>)
    ELSE header_second(header, fuzzy_match, r.data.s, argv_next(r.argv, {}, TRUE))

header_next(header, fuzzy_match, r) ==
    header_first(header, fuzzy_match, r, compact_pattern_match(header.compact_pattern, r.data.s))

\* analyse_header(header, argv)
analyse_header(header, v, fuzzy_match) == header_next(header, fuzzy_match, argv_next(v, {}, TRUE))

(***************************************************************************)
(* analysis/parts.analyse_header for the same headers: command_header is   *)
(* the compiled pattern (?:p1|p2|..)command, matched with fullmatch.       *)
(***************************************************************************)
\* command_header.fullmatch(head_text)
command_fullmatch(header, text) ==
    IF header.origin.prefixes = <<>> THEN re_match(header.origin.command, text) = Len(text)
    ELSE \E i \in 1..Len(header.origin.prefixes) :
            /\ StartsWith(text, header.origin.prefixes[i])
            /\ re_match(header.origin.command,
                        SubSeq(text, Len(header.origin.prefixes[i]) + 1, Len(text)))
               = Len(text) - Len(header.origin.prefixes[i])

PartsHeaded(a, res, exc, msg, head_matched) ==
    [a |-> a, res |-> res, exc |-> exc, msg |-> msg, head_matched |-> head_matched]

\* analyse_header, `if not analyser.head_matched:` the source is the head text; a source
\* equal to the command name is refused before the header texts are compared, and
\* head_matched is set before FuzzyMatchSuccess is raised
parts_header_failed(header, is_fuzzy_match, r, a, msg) ==
    IF ~(r.is_str /\ is_fuzzy_match) \/ r.data.s = header.origin.command \/ msg = <<>>
    THEN PartsHeaded(a, <<>>, "ParamsUnmatched", <<>>, FALSE)
    ELSE PartsHeaded(a, <<>>, "FuzzyMatchSuccess", msg, TRUE)

parts_header_first(header, is_fuzzy_match, r) ==
    IF r.is_str /\ command_fullmatch(header, r.data.s)
    THEN PartsHeaded(r.a, [matched |-> TRUE, groups |-> EmptyDict], "", <<>>, TRUE)
    ELSE parts_header_failed(header, is_fuzzy_match, r, next_data(r.a, separators, TRUE).a,
                             IF r.is_str THEN _handle_fuzzy(header, r.data.s) ELSE <<>>)

\* parts.analyse_header(analyser)
parts_analyse_header(a, header, is_fuzzy_match) ==
    parts_header_first(header, is_fuzzy_match, next_data(a, separators, TRUE))

(***************************************************************************)
(* The specification of the header analysis: a Header is generated, a      *)
(* command line is handed to the Argv and analyse_header is called.        *)
(***************************************************************************)
MaxHeadTokens == 2

Headers ==
    { generate(<<"p", "i", "n", "g">>, << <<"!">> >>, TRUE),
      generate(<<"p", "i", "n", "g">>, << <<"!">> >>, FALSE),
      generate(<<"p", "i", "n", "g">>, << <<"!">>, <<"/">> >>, TRUE),
      generate(<<"p", "i", "n", "g">>, <<>>, TRUE),
      generate(<<"a", ".", "b">>, << <<"!">> >>, TRUE) }

HeadTokens ==
    { <<"!", "p", "i", "n", "g">>, <<"!", "p", "i", "n", "g", "F">>, <<"F">>,
      <<"p", "i", "n", "g">>, <<"p", "i", "n", "g", "F">>, <<"/", "p", "i", "n", "g", "F">>,
      <<"!", "p", "i", "n">>, <<"!", "a", ".", "b">>, <<"!", "a", ".", "b", "F">>,
      <<"!", "a", "x", "b", "F">>, <<"z", "z">> }

HeadInputs == UNION { [1..n -> HeadTokens] : n \in 1..MaxHeadTokens }

HeaderBuild ==
    /\ hdr.pc = "idle"
    /\ \E header \in Headers, tokens \in HeadInputs, fuzzy_match \in BOOLEAN :
          /\ argv' = argv_build(<<StrVal(join(tokens, " "))>>)
          /\ analyser' = process_message(analyser, <<StrVal(join(tokens, " "))>>)
          /\ hdr' = [HdrIdle EXCEPT !.pc = "built", !.header = header, !.tokens = tokens,
                                    !.fuzzy = fuzzy_match]
    /\ UNCHANGED <<last, sub, prs, sc, mgr, spl, cmp, sis, lru, bhv, cpt, alc>>

AnalyseHeader ==
    /\ hdr.pc = "built"
    /\ \E t \in { analyse_header(hdr.header, argv, hdr.fuzzy) } :
          /\ argv' = t.argv
          /\ hdr' = [hdr EXCEPT !.pc = "done", !.gen = "internal", !.res = t.res,
                                !.exc = t.exc, !.msg = t.msg]
    /\ UNCHANGED <<analyser, last, sub, prs, sc, mgr, spl, cmp, sis, lru, bhv, cpt, alc>>

PartsHeader ==
    /\ hdr.pc = "built"
    /\ \E t \in { parts_analyse_header(analyser, hdr.header, hdr.fuzzy) } :
          /\ analyser' = t.a
          /\ hdr' = [hdr EXCEPT !.pc = "done", !.gen = "parts", !.res = t.res,
                                !.exc = t.exc, !.msg = t.msg,
                                !.head_matched = t.head_matched]
    /\ UNCHANGED <<argv, last, sub, prs, sc, mgr, spl, cmp, sis, lru, bhv, cpt, alc>>

NextHeader == HeaderBuild \/ AnalyseHeader \/ PartsHeader

SpecHeader == InitParse /\ [][NextHeader]_vars

(***************************************************************************)
(* manager.py: the shortcuts of one command.  The manager keeps two dicts  *)
(* for it, the display table _shortcut[0] and the match table              *)
(* _shortcut[1]; a dict is the sequence of its entries in insertion order. *)
(***************************************************************************)
dict_has(d, key) == \E i \in 1..Len(d) : d[i].key = key
dict_at(d, key) == CHOOSE i \in 1..Len(d) : d[i].key = key
dict_get(d, key) == d[dict_at(d, key)].value
dict_set(d, key, value) ==
    IF dict_has(d, key) THEN [d EXCEPT ![dict_at(d, key)].value = value]
    ELSE Append(d, [key |-> key, value |-> value])
dict_pop(d, key) == SelectSeq(d, LAMBDA e : e.key # key)
dict_keys(d) == { d[i].key : i \in 1..Len(d) }

\* ShortcutArgs: command and humanized are <<>> when not given
ShortcutArgs(command, args, fuzzy, prefix, humanized) ==
    [command |-> command, args |-> args, fuzzy |-> fuzzy, prefix |-> prefix,
     humanized |-> humanized]

InnerShortcutArgs(source, command, prefixes) ==
    [command |-> command, args |-> source.args, fuzzy |-> source.fuzzy,
     prefixes |-> prefixes]

Tables(display, match) == [display |-> display, match |-> match]

\* add_shortcut, prefix=True: one entry of the match table for each prefix of the command
RECURSIVE add_prefixed(_, _, _, _, _)
add_prefixed(match, prefixes, key, source, command) ==
    IF prefixes = <<>> THEN match
    ELSE add_prefixed(dict_set(match, re_escape(Head(prefixes)) \o key,
                               InnerShortcutArgs(source, Head(prefixes) \o command, <<>>)),
                      Tail(prefixes), key, source, command)

\* source.get("command", str(target.command))
source_command(target, source) ==
    IF source.command # <<>> THEN source.command ELSE target.command

\* CommandManager.add_shortcut(target, key, source)
add_shortcut(t, target, key, source) ==
    IF source.prefix /\ target.prefixes # <<>>
    THEN Tables(dict_set(t.display, IF source.humanized # <<>> THEN source.humanized ELSE key,
                         InnerShortcutArgs(source, source_command(target, source),
                                           target.prefixes)),
                add_prefixed(t.match, target.prefixes, key, source,
                             source_command(target, source)))
    ELSE Tables(dict_set(t.display, IF source.humanized # <<>> THEN source.humanized ELSE key,
                         InnerShortcutArgs(source, source_command(target, source), <<>>)),
                dict_set(t.match, key,
                         InnerShortcutArgs(source, source_command(target, source), <<>>)))

\* CommandManager.delete_shortcut(target, key): the display entry is popped, then the
\* match entry is deleted; a key the match table does not hold is a KeyError, raised as
\* ValueError after the pop
delete_shortcut(t, key) ==
    IF key = <<>> THEN [t |-> Tables(<<>>, <<>>), err |-> ""]
    ELSE IF ~dict_has(t.match, key)
    THEN [t |-> Tables(dict_pop(t.display, key), t.match), err |-> "ValueError"]
    ELSE [t |-> Tables(dict_pop(t.display, key), dict_pop(t.match, key)), err |-> ""]

\* CommandManager.get_shortcut(target): the display table
get_shortcut(t) == t.display

\* what find_shortcut returns: the data left, the shortcut and the Match (<<>>: None); the
\* key of the shortcut and the query it was matched with are kept with it
Found(data, key, args, query, span) ==
    [ok |-> TRUE, data |-> data, key |-> key, args |-> args, query |-> query,
     mat |-> IF span < 0 THEN <<>> ELSE [string |-> query, span |-> span]]
NotFound == [ok |-> FALSE, data |-> <<>>, key |-> <<>>, args |-> <<>>, query |-> <<>>,
             mat |-> <<>>]

\* a lookup that drops the rest of the query
RECURSIVE find_entry_tail_dropped(_, _, _, _)
find_entry_tail_dropped(match, i, query, data) ==
    IF i > Len(match) THEN <<>>
    ELSE IF match[i].value.fuzzy /\ re_match(match[i].key, query) >= 0
    THEN Found(data, match[i].key, match[i].value, query, re_match(match[i].key, query))
    ELSE IF re_match(match[i].key, query) = Len(query)
            /\ (match[i].value.fuzzy \/ data = <<>>)
    THEN Found(data, match[i].key, match[i].value, query, Len(query))
    ELSE find_entry_tail_dropped(match, i + 1, query, data)

\* find_shortcut: the loop over the entries of the match table, from entry i on (<<>>:
\* none matches the query)
RECURSIVE find_entry(_, _, _, _)
find_entry(match, i, query, data) ==
    IF i > Len(match) THEN <<>>
    ELSE IF match[i].value.fuzzy /\ re_match(match[i].key, query) >= 0
    THEN Found(IF Len(query) > re_match(match[i].key, query)
               THEN <<StrVal(SubSeq(query, re_match(match[i].key, query) + 1, Len(query)))>>
                    \o data
               ELSE data,
               match[i].key, match[i].value, query, re_match(match[i].key, query))
    ELSE IF re_match(match[i].key, query) = Len(query)
            /\ (match[i].value.fuzzy \/ data = <<>>)
    THEN Found(data, match[i].key, match[i].value, query, Len(query))
    ELSE find_entry(match, i + 1, query, data)

\* find_shortcut: the loop that lengthens the query with the next token
RECURSIVE find_query(_, _, _, _)
find_tried(match, sep, query, data, hit) ==
    IF hit # <<>> THEN hit
    ELSE IF data = <<>> \/ ~IsStr(Head(data)) THEN NotFound
    ELSE find_query(match, sep, query \o <<sep>> \o Head(data).s, Tail(data))

find_query(match, sep, query, data) ==
    IF dict_has(match, query) THEN Found(data, query, dict_get(match, query), query, -1)
    ELSE find_tried(match, sep, query, data, find_entry(match, 1, query, data))

\* CommandManager.find_shortcut(target, data)
find_shortcut(t, target, data) ==
    find_query(t.match, target.separators[1], Head(data).s, Tail(data))

(***************************************************************************)
(* manager.py: the registry of the commands.  The commands table is the    *)
(* table of one namespace, from the name of a command to the command; the  *)
(* Argv table and the analyser table are keyed by the hash of the command. *)
(***************************************************************************)
\* the part of the manager that register and delete work on
Registry(m) ==
    [commands |-> m.commands, argv |-> m.argv, analysers |-> m.analysers,
     current_count |-> m.current_count]

\* an Alconna: its name and its _hash
Alconna(name, hash) == [name |-> name, hash |-> hash]

\* register, after the Argv and the analyser are stored
register_named(m, command) ==
    IF dict_has(m.commands, command.name) THEN m
    ELSE [m EXCEPT !.commands = dict_set(@, command.name, command), !.current_count = @ + 1]

\* a register that does not look at max_count
register_unchecked(m, command) ==
    register_named([m EXCEPT !.argv = @ \cup {command.hash},
                             !.analysers = @ \cup {command.hash}], command)

\* CommandManager.register(command)
register(m, command) ==
    IF m.current_count >= max_count THEN [m EXCEPT !.err = "ExceedMaxCount"]
    ELSE register_named([m EXCEPT !.argv = @ \cup {command.hash},
                                  !.analysers = @ \cup {command.hash}], command)

\* CommandManager.delete(command): the first del that raises KeyError ends it
delete(m, command) ==
    IF command.hash \notin m.argv THEN m
    ELSE IF command.hash \notin m.analysers THEN [m EXCEPT !.argv = @ \ {command.hash}]
    ELSE IF ~dict_has(m.commands, command.name)
    THEN [m EXCEPT !.argv = @ \ {command.hash}, !.analysers = @ \ {command.hash}]
    ELSE [m EXCEPT !.argv = @ \ {command.hash}, !.analysers = @ \ {command.hash},
                   !.commands = dict_pop(@, command.name), !.current_count = @ - 1]

\* CommandManager.update(command), up to its yield: the command is taken out of the three
\* tables; a hash the Argv table does not hold is a ValueError, and the first pop or del
\* that raises KeyError ends it
update_enter(m, command) ==
    IF command.hash \notin m.argv THEN [m EXCEPT !.err = "ValueError"]
    ELSE IF command.hash \notin m.analysers
    THEN [m EXCEPT !.argv = @ \ {command.hash}, !.err = "KeyError"]
    ELSE IF ~dict_has(m.commands, command.name)
    THEN [m EXCEPT !.argv = @ \ {command.hash}, !.analysers = @ \ {command.hash},
                   !.err = "KeyError"]
    ELSE [m EXCEPT !.argv = @ \ {command.hash}, !.analysers = @ \ {command.hash},
                   !.commands = dict_pop(@, command.name)]

\* CommandManager.update(command), after its yield: the name and the hash are computed
\* again and the command is put back into the three tables
update_exit(m, command) ==
    [m EXCEPT !.commands = dict_set(@, command.name, command),
              !.argv = @ \cup {command.hash}, !.analysers = @ \cup {command.hash}]

\* what the body of the with block did to the command (a name or a content that is
\* changed gives another hash), and whether it raised: the generator has no try around
\* its yield, so an exception of the body ends it there
update_body(m, command, body) ==
    IF m.err # "" THEN m
    ELSE IF body.raised THEN [m EXCEPT !.err = "BodyError"]
    ELSE update_exit(m, body.command)

\* with CommandManager.update(command): body
with_update(m, command, body) == update_body(update_enter(m, command), command, body)

(***************************************************************************)
(* The specification of the registry: commands are registered, deleted and *)
(* updated in any order; two of the commands have the same name.           *)
(***************************************************************************)
Commands ==
    { Alconna(<<"a">>, 1), Alconna(<<"a">>, 2), Alconna(<<"b">>, 3), Alconna(<<"c">>, 4) }

notManager == <<analyser, last, sub, argv, prs, hdr, sc, spl, cmp, sis, lru, bhv, cpt, alc>>

Register ==
    /\ \E command \in Commands :
       \E m \in { register([mgr EXCEPT !.err = ""], command) } :
          mgr' = [m EXCEPT !.op = "register", !.pre = Registry(mgr)]
    /\ UNCHANGED notManager

Delete ==
    /\ \E command \in Commands :
       \E m \in { delete([mgr EXCEPT !.err = ""], command) } :
          mgr' = [m EXCEPT !.op = "delete", !.pre = Registry(mgr)]
    /\ UNCHANGED notManager

\* the bodies of a with block: the command as the body leaves it, and whether it raised
Bodies == [command : Commands, raised : BOOLEAN]

Update ==
    /\ \E command \in Commands, body \in Bodies :
       \E m \in { with_update([mgr EXCEPT !.err = ""], command, body) } :
          mgr' = [m EXCEPT !.op = "update", !.pre = Registry(mgr),
                           !.command = IF body.raised THEN command ELSE body.command]
    /\ UNCHANGED notManager

NextManager == Register \/ Delete \/ Update

SpecManager == InitParse /\ [][NextManager]_vars

(***************************************************************************)
(* _internal/_handlers.py: the rewriting of the token stream by a          *)
(* shortcut.  raw_data is a Python list: element i of the list is          *)
(* raw_data[i + 1] here.  The units hold no backslash, so escape and       *)
(* unescape leave them as they are.                                        *)
(***************************************************************************)
RECURSIVE rstrip(_)
rstrip(text) ==
    IF text # <<>> /\ text[Len(text)] \in Spaces THEN rstrip(SubSeq(text, 1, Len(text) - 1))
    ELSE text

\* str.strip()
strip(text) == rstrip(lstrip(text))

\* the characters of \w that the units are written with
Word ==
    Digits \cup {"_", "a", "b", "c", "d", "e", "f", "g", "h", "i", "j", "k", "l", "m", "n", "o",
                 "p", "q", "r", "s", "t", "u", "v", "w", "x", "y", "z", "G"}

\* the slots: what opens one and the characters it holds
INDEX_SLOT == [open |-> <<"{", "%">>, class |-> Digits]
INDEX_REG_SLOT == [open |-> <<"{">>, class |-> Digits]
KEY_REG_SLOT == [open |-> <<"{">>, class |-> Word]

\* the number of characters of the class text begins with
RECURSIVE class_run(_, _)
class_run(text, class) ==
    IF text # <<>> /\ Head(text) \in class THEN 1 + class_run(Tail(text), class) ELSE 0

\* the length of the slot text begins with (0: none)
slot_end(text, slot, n) ==
    IF n > 0 /\ Len(text) > Len(slot.open) + n /\ text[Len(slot.open) + n + 1] = "}"
    THEN Len(slot.open) + n + 1
    ELSE 0

slot_len(text, slot) ==
    IF StartsWith(text, slot.open)
    THEN slot_end(text, slot, class_run(SubSeq(text, Len(slot.open) + 1, Len(text)), slot.class))
    ELSE 0

\* int(mat[1])
slot_index(text, slot) ==
    to_int(SubSeq(text, Len(slot.open) + 1, slot_len(text, slot) - 1), 0)

\* slot.findall(unit): the indexes of the slots
RECURSIVE findall(_, _)
findall(text, slot) ==
    IF text = <<>> THEN <<>>
    ELSE IF slot_len(text, slot) > 0
    THEN <<slot_index(text, slot)>>
         \o findall(SubSeq(text, slot_len(text, slot) + 1, Len(text)), slot)
    ELSE findall(Tail(text), slot)

\* slot.fullmatch(unit)
fullmatch(text, slot) == slot_len(text, slot) > 0 /\ slot_len(text, slot) = Len(text)

\* f"{{%{index}}}", for an index of one digit
slot_text(index, slot) ==
    slot.open \o <<(<<"0", "1", "2", "3", "4", "5", "6", "7", "8", "9">>)[index + 1], "}">>

\* str.find(sub) + 1 (0: not found)
RECURSIVE find_sub(_, _, _)
find_sub(text, subtext, at) ==
    IF Len(text) < Len(subtext) THEN 0
    ELSE IF StartsWith(text, subtext) THEN at
    ELSE find_sub(Tail(text), subtext, at + 1)

\* str.replace(old, new)
RECURSIVE replace(_, _, _)
replace(text, old, new) ==
    IF Len(text) < Len(old) THEN text
    ELSE IF StartsWith(text, old)
    THEN new \o replace(SubSeq(text, Len(old) + 1, Len(text)), old, new)
    ELSE <<Head(text)>> \o replace(Tail(text), old, new)

\* list.insert(i, x)
insert(list, i, x) == SubSeq(list, 1, i) \o <<x>> \o SubSeq(list, i + 1, Len(list))

\* the state of _handle_shortcut_data: argv.raw_data, record, offset, whether data was
\* cleared by a wildcard slot, and the exception raised
Slots(raw_data, record, offset, cleared, exc) ==
    [raw_data |-> raw_data, record |-> record, offset |-> offset, cleared |-> cleared,
     exc |-> exc]

\* list[i] = x for the Python index i
set_item(h, i, x) ==
    IF i + 1 > Len(h.raw_data) THEN [h EXCEPT !.exc = "IndexError"]
    ELSE [h EXCEPT !.raw_data[i + 1] = x]

\* _handle_multi_slot, the slot not being a string: left and right are the two sides of
\* the first {%index} of the unit
multi_slot_split(h, left, slot, right, current) ==
    IF strip(right) = <<>>
    THEN [h EXCEPT !.raw_data = insert(IF strip(left) # <<>>
                                       THEN [h.raw_data EXCEPT ![current + 1] =
                                                StrVal(strip(left))]
                                       ELSE h.raw_data,
                                       current + 1, slot)]
    ELSE set_item([h EXCEPT !.raw_data = insert(IF strip(left) # <<>>
                                                THEN [h.raw_data EXCEPT ![current + 1] =
                                                         StrVal(strip(left))]
                                                ELSE h.raw_data,
                                                current + 1, slot),
                            !.offset = @ + 1],
                  current + 2, StrVal(strip(right)))

\* _handle_multi_slot(argv, unit, data, index, current, offset)
_handle_multi_slot(h, unit, data, index, current) ==
    IF ~IsStr(data[index + 1])
    THEN multi_slot_split(h, SubSeq(unit, 1, find_sub(unit, slot_text(index, INDEX_SLOT), 1) - 1),
                          data[index + 1],
                          SubSeq(unit, find_sub(unit, slot_text(index, INDEX_SLOT), 1)
                                       + Len(slot_text(index, INDEX_SLOT)), Len(unit)),
                          current)
    ELSE set_item(h, current + h.offset,
                  StrVal(replace(unit, slot_text(index, INDEX_SLOT), data[index + 1].s)))

\* _handle_shortcut_data: the loop over the indexes found in one unit
RECURSIVE multi_slots(_, _, _, _, _)
multi_slots(h, unit, data, res, current) ==
    IF res = <<>> \/ h.exc # "" THEN h
    ELSE IF Head(res) >= Len(data) THEN multi_slots(h, unit, data, Tail(res), current)
    ELSE multi_slots([_handle_multi_slot(h, unit, data, Head(res), current)
                         EXCEPT !.record = @ \cup {Head(res)}],
                     unit, data, Tail(res), current)

\* the place of the last } of text (0: none)
RECURSIVE last_brace(_)
last_brace(text) ==
    IF text = <<>> THEN 0
    ELSE IF text[Len(text)] = "}" THEN Len(text)
    ELSE last_brace(SubSeq(text, 1, Len(text) - 1))

\* WILDCARD_SLOT.search(unit): the text between the first {* and the last } after it
Wildcard(unit, at, end) ==
    IF at > 0 /\ end > at + 1
    THEN [found |-> TRUE, sep |-> SubSeq(unit, at + 2, end - 1), at |-> at, end |-> end]
    ELSE [found |-> FALSE, sep |-> <<>>, at |-> 0, end |-> 0]

WILDCARD_SLOT(unit) == Wildcard(unit, find_sub(unit, <<"{", "*">>, 1), last_brace(unit))

\* str(unit) of a unit that is not a string: a text that holds no slot
str_of(unit) == IF IsStr(unit) THEN unit.s ELSE <<"<", "o", ">">>

\* _gen_extend(data, sep): neighbouring strings are joined by sep
RECURSIVE _gen_extend(_, _, _)
_gen_extend(data, sep, extend) ==
    IF data = <<>> THEN extend
    ELSE IF IsStr(Head(data)) /\ extend # <<>> /\ IsStr(extend[Len(extend)])
    THEN _gen_extend(Tail(data), sep,
                     [extend EXCEPT ![Len(extend)] = StrVal(@.s \o sep \o Head(data).s)])
    ELSE _gen_extend(Tail(data), sep, Append(extend, Head(data)))

RECURSIVE join_str(_)
join_str(extend) ==
    IF extend = <<>> THEN <<>> ELSE str_of(Head(extend)) \o join_str(Tail(extend))

\* _handle_shortcut_data, the wildcard slot m of the unit i
wildcard_slot(h, unit, i, m, extend) ==
    IF Len(unit) = Len(m.sep) + 3 /\ m.at = 1
    THEN [h EXCEPT !.raw_data = @ \o extend, !.cleared = TRUE]
    ELSE [set_item(h, i + h.offset,
                   StrVal(SubSeq(unit, 1, m.at - 1) \o join_str(extend)
                          \o SubSeq(unit, m.end + 1, Len(unit))))
             EXCEPT !.cleared = TRUE]

\* a rewriter that fills no slot
shortcut_unit_unfilled(h, unit, data, i) == h

\* _handle_shortcut_data: the body of the loop for the unit of Python index i
shortcut_unit(h, unit, data, i) ==
    IF ~IsStr(unit) THEN h
    ELSE IF fullmatch(unit.s, INDEX_SLOT)
    THEN (IF slot_index(unit.s, INDEX_SLOT) >= Len(data) THEN h
          ELSE [set_item(h, i + h.offset, data[slot_index(unit.s, INDEX_SLOT) + 1])
                   EXCEPT !.record = @ \cup {slot_index(unit.s, INDEX_SLOT)}])
    ELSE IF findall(unit.s, INDEX_SLOT) # <<>>
    THEN multi_slots(h, unit.s, data, findall(unit.s, INDEX_SLOT), i)
    ELSE IF WILDCARD_SLOT(unit.s).found
    THEN wildcard_slot(h, unit.s, i, WILDCARD_SLOT(unit.s),
                       _gen_extend(data, IF WILDCARD_SLOT(unit.s).sep # <<>>
                                         THEN WILDCARD_SLOT(unit.s).sep ELSE <<" ">>, <<>>))
    ELSE h

\* _handle_shortcut_data: the loop over argv.raw_data.copy()
RECURSIVE shortcut_units(_, _, _, _)
shortcut_units(h, units, data, i) ==
    IF i >= Len(units) \/ h.exc # "" \/ h.cleared THEN h
    ELSE shortcut_units(shortcut_unit(h, units[i + 1], data, i), units, data, i + 1)

\* the data items whose index is not in record
RECURSIVE unused(_, _, _)
unused(data, record, i) ==
    IF data = <<>> THEN <<>>
    ELSE (IF i \in record THEN <<>> ELSE <<Head(data)>>) \o unused(Tail(data), record, i + 1)

\* _handle_shortcut_data(argv, data): the rewritten raw_data and the list returned
shortcut_data_end(h, data) ==
    [raw_data |-> h.raw_data, exc |-> h.exc,
     data |-> IF h.cleared \/ h.exc # "" THEN <<>> ELSE unused(data, h.record, 0)]

_handle_shortcut_data(raw_data, data) ==
    IF data = <<>> THEN [raw_data |-> raw_data, exc |-> "", data |-> <<>>]
    ELSE shortcut_data_end(shortcut_units(Slots(raw_data, {}, 0, FALSE, ""), raw_data, data, 0),
                           data)

\* the unit with every slot of a group replaced by nothing
RECURSIVE reg_blank(_, _)
reg_blank(text, slot) ==
    IF text = <<>> THEN <<>>
    ELSE IF slot_len(text, slot) > 0
    THEN reg_blank(SubSeq(text, slot_len(text, slot) + 1, Len(text)), slot)
    ELSE <<Head(text)>> \o reg_blank(Tail(text), slot)

\* _handle_shortcut_reg(argv, groups, gdict, wrapper) for a Match without groups: a unit
\* that is a slot of a group is dropped, a slot inside a unit is replaced by nothing
reg_unit(unit, blank) ==
    IF fullmatch(unit, INDEX_REG_SLOT) \/ fullmatch(unit, KEY_REG_SLOT) \/ blank = <<>>
    THEN <<>>
    ELSE <<StrVal(blank)>>

RECURSIVE _handle_shortcut_reg(_)
_handle_shortcut_reg(raw_data) ==
    IF raw_data = <<>> THEN <<>>
    ELSE (IF ~IsStr(Head(raw_data)) THEN <<Head(raw_data)>>
          ELSE reg_unit(Head(raw_data).s,
                        reg_blank(reg_blank(Head(raw_data).s, INDEX_REG_SLOT), KEY_REG_SLOT)))
         \o _handle_shortcut_reg(Tail(raw_data))

\* the rewriting once the shortcut is found: the stream is built from the command, the
\* arguments are added, the data slots are filled, the data left is added and, the
\* shortcut being matched as a pattern, the group slots are filled
Rewritten(pre, raw_data, exc) == [pre |-> pre, raw_data |-> raw_data, exc |-> exc]

rewrite_end(pre, f, h) ==
    IF h.exc # "" THEN Rewritten(pre, h.raw_data, h.exc)
    ELSE IF f.mat # <<>> THEN Rewritten(pre, _handle_shortcut_reg(h.raw_data \o h.data), "")
    ELSE Rewritten(pre, h.raw_data \o h.data, "")

rewrite_slots(f, raw_data) == rewrite_end(raw_data, f, _handle_shortcut_data(raw_data, f.data))

rewrite(f) ==
    IF ~f.args.fuzzy /\ f.data # <<>> THEN Rewritten(<<>>, <<>>, "ParamsUnmatched")
    ELSE rewrite_slots(f, argv_build(<<StrVal(f.args.command)>>).raw_data \o f.args.args)

(***************************************************************************)
(* The specification of the shortcuts: a command is registered, shortcuts  *)
(* are added and deleted, then a command line is looked up.                *)
(***************************************************************************)
MaxShortcuts == 1
MaxShortTokens == 2

Target(command, prefixes) ==
    [command |-> command, prefixes |-> prefixes, separators |-> <<" ">>]

Verbose == StrVal(<<"-", "-", "v", "e", "r", "b", "o", "s", "e">>)
Status == StrVal(<<"s", "t", "a", "t", "u", "s">>)
Git == StrVal(<<"g", "i", "t">>)

Targets ==
    { Target(<<"g", "i", "t">>, <<>>), Target(<<"g", "i", "t">>, << <<"!">> >>) }

ShortKeys == { <<"g">>, <<"g", ".">> }

Sources ==
    { ShortcutArgs(<<"g", "i", "t">>, <<StrVal(<<"{", "%", "0", "}">>), Verbose>>,
                   TRUE, FALSE, <<>>),
      ShortcutArgs(<<"g", "i", "t">>, <<StrVal(<<"{", "0", "}">>), Verbose>>,
                   TRUE, FALSE, <<>>),
      ShortcutArgs(<<"g", "i", "t">>, <<StrVal(<<"a", "{", "%", "0", "}", "b">>), Verbose>>,
                   TRUE, FALSE, <<>>),
      ShortcutArgs(<<>>, <<>>, FALSE, FALSE, <<>>),
      ShortcutArgs(<<>>, <<>>, TRUE, TRUE, <<>>),
      ShortcutArgs(<<>>, <<>>, TRUE, FALSE, <<"G">>) }

ShortTokens ==
    { StrVal(<<"g">>), StrVal(<<"g", "x">>), StrVal(<<"!", "g">>), Status, ObjVal(1) }

ShortInputs ==
    { data \in UNION { [1..n -> ShortTokens] : n \in 1..MaxShortTokens } : IsStr(data[1]) }

ScTables == Tables(sc.display, sc.match)

\* Alconna(...): the command is registered with the manager
Command ==
    /\ sc.pc = "idle"
    /\ \E target \in Targets : sc' = [ScIdle EXCEPT !.pc = "tables", !.target = target]
    /\ UNCHANGED <<analyser, last, sub, argv, prs, hdr, mgr, spl, cmp, sis, lru, bhv, cpt, alc>>

\* Alconna.shortcut(key, args)
AddShortcut ==
    /\ sc.pc = "tables" /\ sc.adds < MaxShortcuts
    /\ \E key \in ShortKeys, source \in Sources :
       \E t \in { add_shortcut(ScTables, sc.target, key, source) } :
          sc' = [sc EXCEPT !.display = t.display, !.match = t.match, !.adds = @ + 1,
                           !.op = "add", !.key = key, !.source = source, !.err = "",
                           !.pre = ScTables]
    /\ UNCHANGED <<analyser, last, sub, argv, prs, hdr, mgr, spl, cmp, sis, lru, bhv, cpt, alc>>

\* Alconna.shortcut(key, delete=True), for the key of the shortcut added last
DeleteShortcut ==
    /\ sc.pc = "tables" /\ sc.op = "add"
    /\ \E t \in { delete_shortcut(ScTables, sc.key) } :
          sc' = [sc EXCEPT !.display = t.t.display, !.match = t.t.match, !.op = "delete",
                           !.err = t.err, !.pre = ScTables]
    /\ UNCHANGED <<analyser, last, sub, argv, prs, hdr, mgr, spl, cmp, sis, lru, bhv, cpt, alc>>

\* the command line is looked up among the shortcuts
FindShortcut ==
    /\ sc.pc = "tables" /\ sc.adds > 0
    /\ \E data \in ShortInputs :
       \E f \in { find_shortcut(ScTables, sc.target, data) } :
          sc' = [sc EXCEPT !.pc = IF f.ok THEN "found" ELSE "failed", !.op = "find",
                           !.input = data, !.found = f, !.err = IF f.ok THEN "" ELSE "ValueError"]
    /\ UNCHANGED <<analyser, last, sub, argv, prs, hdr, mgr, spl, cmp, sis, lru, bhv, cpt, alc>>

\* the shortcut found rewrites the token stream
Rewrite ==
    /\ sc.pc = "found"
    /\ \E t \in { rewrite(sc.found) } :
          sc' = [sc EXCEPT !.pc = "done", !.op = "rewrite", !.raw_data = t.raw_data,
                           !.pre = t.pre, !.err = t.exc]
    /\ UNCHANGED <<analyser, last, sub, argv, prs, hdr, mgr, spl, cmp, sis, lru, bhv, cpt, alc>>

NextShortcut == Command \/ AddShortcut \/ DeleteShortcut \/ FindShortcut \/ Rewrite

SpecShortcut == InitParse /\ [][NextShortcut]_vars

(***************************************************************************)
(* The specification of util.split: a text is split, and a text is turned  *)
(* into the stream and released again.                                     *)
(***************************************************************************)
MaxText == 4

\* the characters of the texts: a letter, the separator, the two quotes, the
\* backslash and the line feed
Alphabet == {"a", " ", "\"", "'", "\\", "\n"}
Texts == UNION { [1..n -> Alphabet] : n \in 0..MaxText }

notSplit == <<analyser, last, sub, argv, prs, hdr, sc, mgr, cmp, sis, lru, bhv, cpt, alc>>

\* a text is given
InitSplit ==
    /\ analyser = reset
    /\ last = NoOp
    /\ sub = SubIdle
    /\ argv = ArgvNew
    /\ prs = PrsIdle
    /\ hdr = HdrIdle
    /\ sc = ScIdle
    /\ mgr = MgrIdle
    /\ cmp = CmpIdle
    /\ sis = SisIdle
    /\ lru = LruIdle
    /\ bhv = BhvIdle
    /\ cpt = CptIdle
    /\ alc = AlcIdle
    /\ spl \in { [SplIdle EXCEPT !.text = text] : text \in Texts }

\* split(text, separates) and split_once(text, separates)
Split ==
    /\ spl.op = "none"
    /\ spl' = [spl EXCEPT !.op = "split", !.separates = separators,
                          !.result = split(spl.text, separators),
                          !.once = split_once(spl.text, separators)]
    /\ UNCHANGED notSplit

\* process_message(text) on a fresh Analyser, then the release of the whole stream
Release ==
    /\ spl.op = "none"
    /\ \E pick \in separators :
       \E a \in { process_message(reset, <<StrVal(spl.text)>>) } :
          spl' = [spl EXCEPT !.op = "release", !.separates = separators,
                             !.result = data_tokens(a.raw_data),
                             !.released = recover_raw_data(a, pick).result]
    /\ UNCHANGED notSplit

NextSplit == Split \/ Release

SpecSplit == InitSplit /\ [][NextSplit]_vars

(***************************************************************************)
(* _internal/_handlers.py: completion.  prompt builds the list of prompts  *)
(* and handle_completion raises it, or sends it and exports a failure.     *)
(***************************************************************************)
\* Prompt(text, can_use, removal_prefix); <<>> is no removal_prefix
Prompt(text, can_use, removal_prefix) ==
    [text |-> text, can_use |-> can_use, removal_prefix |-> removal_prefix]

\* an Arg as the trigger of a completion: field.get_completion() gives nothing
\* ("none"), one hint ("str") or a list of hints ("list")
CompArg(name, kind, hints) == [ctx |-> "Arg", name |-> name, kind |-> kind, hints |-> hints]
CompSubcommand(params) == [ctx |-> "Subcommand", name |-> <<>>, kind |-> "none", hints |-> params]
CompNone == [ctx |-> "None", name |-> <<>>, kind |-> "none", hints |-> <<>>]

\* analyser.command.formatter.param(arg): the display form of the slot
formatter_param(name) == <<"<">> \o name \o <<">">>

\* x in text, for strings
in_str(x, text) == x = <<>> \/ find_sub(text, x, 1) # 0

\* analyser.compile_params, as the list of its keys: the aliases of the options
RECURSIVE aliases_of(_)
aliases_of(opts) ==
    IF opts = <<>> THEN <<>> ELSE Head(opts).aliases \o aliases_of(Tail(opts))

\* target = str(releases[-1]) or str(releases[-2])
release_target(releases) ==
    IF PyAt(releases, -1) # <<>> THEN PyAt(releases, -1) ELSE PyAt(releases, -2)

\* [Prompt(f"{name}: {i}", False, target) for i in o]
hint_prompts(name, o, target) ==
    [i \in 1..Len(o) |-> Prompt(name \o <<":", " ">> \o o[i], FALSE, target)]

_prompt_unit(trig, releases) ==
    IF trig.kind = "none" THEN <<Prompt(formatter_param(trig.name), FALSE, <<>>)>>
    ELSE IF trig.kind = "str"
    THEN <<Prompt(trig.name \o <<":", " ">> \o trig.hints[1], FALSE, <<>>)>>
    ELSE hint_prompts(trig.name,
                      IF SelectSeq(trig.hints,
                                   LAMBDA x : in_str(release_target(releases), x)) # <<>>
                      THEN SelectSeq(trig.hints, LAMBDA x : in_str(release_target(releases), x))
                      ELSE trig.hints,
                      release_target(releases))

\* the aliases of the options that are neither special nor in got
RECURSIVE option_prompts(_, _)
option_prompts(opts, got) ==
    IF opts = <<>> THEN <<>>
    ELSE (IF Head(opts).name \in special \/ Head(opts).dest \in got THEN <<>>
          ELSE [i \in 1..Len(Head(opts).aliases) |-> Prompt(Head(opts).aliases[i], TRUE, <<>>)])
         \o option_prompts(Tail(opts), got)

\* _prompt_none(analyser, argv, got): the command has more than three options
_prompt_none(opts, no_args_result, got) ==
    (IF no_args_result /\ self_args.normal # <<>>
     THEN <<Prompt(formatter_param(self_args.normal[1].name), FALSE, <<>>)>>
     ELSE <<>>)
    \o option_prompts(opts, got)

\* [Prompt(i, True, target) for i in (out or res)]
param_prompts(res, got, target) ==
    LET out == SelectSeq(res, LAMBDA i : i \notin got)
    IN  [k \in 1..Len(IF out # <<>> THEN out ELSE res) |->
            Prompt((IF out # <<>> THEN out ELSE res)[k], TRUE, target)]

\* prompt(analyser, argv, trigger): _trigger is the trigger or, without one, argv.context
prompt(opts, no_args_result, got, releases, context, trigger) ==
    IF trigger = <<>> /\ context.ctx = "Arg" THEN _prompt_unit(context, releases)
    ELSE IF trigger = <<>> /\ context.ctx = "Subcommand"
    THEN [i \in 1..Len(context.hints) |-> Prompt(context.hints[i], TRUE, <<>>)]
    ELSE IF trigger # <<>>
    THEN (IF SelectSeq(aliases_of(opts), LAMBDA x : in_str(trigger, x)) = <<>> THEN <<>>
          ELSE param_prompts(SelectSeq(aliases_of(opts), LAMBDA x : in_str(trigger, x)),
                             got, trigger))
    ELSE IF SelectSeq(aliases_of(opts),
                      LAMBDA x : in_str(release_target(releases), x)
                                 /\ release_target(releases) # x) # <<>>
    THEN param_prompts(SelectSeq(aliases_of(opts),
                                 LAMBDA x : in_str(release_target(releases), x)
                                            /\ release_target(releases) # x),
                       got, release_target(releases))
    ELSE _prompt_none(opts, no_args_result, got)

\* the texts output_manager.send is given
prompt_texts(res) == [i \in 1..Len(res) |-> res[i].text]

\* handle_completion raising PauseTriggered whatever the prompt list is
handle_completion_always_paused(c, res, trigger) ==
    IF c.ctx
    THEN [c EXCEPT !.op = "handle_completion", !.trigger = trigger, !.res = res,
                   !.exc = "PauseTriggered", !.payload = res, !.sent = <<>>,
                   !.returned = FALSE, !.matched = TRUE, !.error_info = ""]
    ELSE [c EXCEPT !.op = "handle_completion", !.trigger = trigger, !.res = res,
                   !.exc = "", !.payload = <<>>, !.sent = prompt_texts(res),
                   !.returned = TRUE, !.matched = FALSE,
                   !.error_info = "SpecialOptionTriggered"]

\* handle_completion(analyser, argv, trigger), res being prompt(analyser, argv, trigger):
\* it ends with analyser.export(argv, True, SpecialOptionTriggered("completion"))
handle_completion(c, res, trigger) ==
    IF res # <<>> /\ c.ctx
    THEN [c EXCEPT !.op = "handle_completion", !.trigger = trigger, !.res = res,
                   !.exc = "PauseTriggered", !.payload = res, !.sent = <<>>,
                   !.returned = FALSE, !.matched = TRUE, !.error_info = ""]
    ELSE [c EXCEPT !.op = "handle_completion", !.trigger = trigger, !.res = res,
                   !.exc = "", !.payload = <<>>,
                   !.sent = IF res # <<>> THEN prompt_texts(res) ELSE <<>>,
                   !.returned = TRUE, !.matched = FALSE,
                   !.error_info = "SpecialOptionTriggered"]

\* the triggers handle_completion is called with (<<>>: none), the contexts of the
\* Argv, the keys of the results so far and the data argv.release gives back
CompTriggers == { <<>>, <<"-">>, <<"-", "a">>, <<"z">> }
CompContexts ==
    { CompNone,
      CompArg(<<"x">>, "none", <<>>),
      CompArg(<<"x">>, "str", << <<"n">> >>),
      CompArg(<<"x">>, "list", << <<"o", "n">>, <<"o", "f", "f">> >>),
      CompSubcommand(<< <<"-", "f">>, <<"-", "f", "f">> >>) }
CompGots == { {}, {<<"-", "a">>}, {<<"-", "a">>, <<"-", "v">>} }
CompReleases == { << <<"-", "a">>, <<"o", "f">> >>, << <<"-">>, <<>> >>, << <<"z">> >> }

notCompletion == <<analyser, last, sub, argv, prs, hdr, sc, mgr, spl, sis, lru, bhv, cpt, alc>>

\* the caller enters or leaves comp_ctx
SetCompCtx ==
    /\ \E ctx \in BOOLEAN : cmp' = [cmp EXCEPT !.ctx = ctx, !.op = "comp_ctx"]
    /\ UNCHANGED notCompletion

\* a completion trigger fires
HandleCompletion ==
    /\ \E trigger \in CompTriggers, context \in CompContexts, got \in CompGots,
          releases \in CompReleases, no_args_result \in BOOLEAN :
       \E res \in { prompt(options, no_args_result, got, releases, context, trigger) } :
          cmp' = [handle_completion(cmp, res, trigger) EXCEPT !.context = context.ctx,
                                                              !.got = got]
    /\ UNCHANGED notCompletion

NextCompletion == SetCompCtx \/ HandleCompletion

SpecCompletion == InitParse /\ [][NextCompletion]_vars

(***************************************************************************)
(* sistana/analyzer.py: Analyzer.loopflow.  The Buffer, the Track, the Mix *)
(* and the pointer of a traverse are the objects loopflow works on: a      *)
(* track is a row of fragments, need of them required, filled one token at *)
(* a time; a mix holds the track of the header and of each option.         *)
(***************************************************************************)
MaxSisTokens == 3

Track(need, max) == [need |-> need, max |-> max, cursor |-> 0, done |-> FALSE]
track_satisfied(track) == track.cursor >= track.need
track_assignable(track) == track.cursor < track.max
track_forward(track) == [track EXCEPT !.cursor = @ + 1]
track_complete(track) == [track EXCEPT !.done = TRUE]
track_reset(track) == [track EXCEPT !.cursor = 0, !.done = FALSE]

mix_satisfied(mix) == \A k \in DOMAIN mix : track_satisfied(mix[k])
mix_complete_all(mix) == [k \in DOMAIN mix |-> track_complete(mix[k])]
mix_reset(mix, k) == [mix EXCEPT ![k] = track_reset(@)]

\* the keywords and the data of the grammar
Cmd == <<"c", "m", "d">>
SoftSub == <<"s", "u", "b">>        \* soft keyword, satisfy_previous
FreeSub == <<"f", "r", "e", "e">>   \* soft keyword, not satisfy_previous
HardSub == <<"h", "a", "r", "d">>   \* satisfy_previous
SoftOpt == <<"-", "s">>             \* soft keyword, compact, one optional fragment
FlagOpt == <<"-", "f">>             \* soft keyword, no fragment
HardOpt == <<"-", "o">>             \* compact, one fragment
PairOpt == <<"-", "p">>             \* two fragments
Datum == <<"x">>

OptionPattern(soft_keyword, need, max) ==
    [soft_keyword |-> soft_keyword, allow_duplicate |-> FALSE, need |-> need, max |-> max]

\* a SubcommandPattern; grammar gives the number of required fragments of the header
\* of the command and of its options -o and -p
SubcommandPattern(header, grammar) ==
    IF header = Cmd
    THEN [header |-> Cmd, soft_keyword |-> FALSE, satisfy_previous |-> TRUE,
          need |-> grammar.header, max |-> 2,
          options |-> [k \in {SoftOpt, FlagOpt, HardOpt, PairOpt} |->
                          IF k = SoftOpt THEN OptionPattern(TRUE, 0, 1)
                          ELSE IF k = FlagOpt THEN OptionPattern(TRUE, 0, 0)
                          ELSE IF k = PairOpt THEN OptionPattern(FALSE, grammar.pair, 2)
                          ELSE OptionPattern(FALSE, grammar.option, 1)],
          subcommands |-> {SoftSub, FreeSub, HardSub},
          compacts |-> {HardOpt, SoftOpt}]
    ELSE [header |-> header, soft_keyword |-> header \in {SoftSub, FreeSub},
          satisfy_previous |-> header # FreeSub,
          need |-> 0, max |-> 1,
          options |-> [k \in {} |-> OptionPattern(FALSE, 0, 0)],
          subcommands |-> {}, compacts |-> {}]

\* subcommand.preset.new_mix(): the track of the header and of each option
new_mix(pattern) ==
    [k \in {pattern.header} \cup DOMAIN pattern.options |->
        IF k = pattern.header THEN Track(pattern.need, pattern.max)
        ELSE Track(pattern.options[k].need, pattern.options[k].max)]

\* SubcommandTraverse(subcommand, ref, mix); ref is the data of the Pointer
SubcommandTraverse(header, ref, mix) ==
    [subcommand |-> header, ref |-> ref, mix |-> mix, option_traverses |-> <<>>]

OptionTraverse(trigger, completed) == [trigger |-> trigger, completed |-> completed]

\* Pointer.parent, Pointer.option, Pointer.subcommand, Pointer.header
ref_parent(ref) == SubSeq(ref, 1, Len(ref) - 1)
ref_option(ref, k) == Append(ref, <<"option", k>>)
ref_subcommand(ref, k) == Append(ref, <<"subcommand", k>>)
ref_header(ref) == Append(ref, <<"header", <<>>>>)

\* the top traverse of the snapshot, and the snapshot with another one in its place
top(s) == s.traverses[Len(s.traverses)]
with_top(s, traverse) == [s EXCEPT !.traverses[Len(s.traverses)] = traverse]

\* buffer.next(...): the token is the first of ahead, or the first of the runes
has_token(s) == s.ahead # <<>> \/ s.runes # <<>>
next_token(s) == IF s.ahead # <<>> THEN Head(s.ahead) ELSE Head(s.runes)
\* token.apply()
apply(s) ==
    IF s.ahead # <<>> THEN [s EXCEPT !.ahead = Tail(@)] ELSE [s EXCEPT !.runes = Tail(@)]

returned(s, desc) == [s EXCEPT !.pc = "returned", !.desc = desc]
noted(s, kind) == [s EXCEPT !.ev.kind = kind]

\* the last OptionTraverse is completed
option_completed(traverse) ==
    [traverse EXCEPT !.option_traverses[Len(traverse.option_traverses)].completed = TRUE]

\* loopflow, buffer.next raised OutOfData
out_of_data(s, traverse, pointer_type, pointer_val) ==
    IF mix_satisfied(traverse.mix)
    THEN returned([with_top(s,
                       IF pointer_type = "option"
                       THEN option_completed([traverse EXCEPT
                                !.mix = [mix_complete_all(traverse.mix) EXCEPT
                                            ![pointer_val] = track_complete(@)],
                                !.ref = ref_parent(@)])
                       ELSE [traverse EXCEPT !.mix = mix_complete_all(@)])
                   EXCEPT !.determined = TRUE],
                  "completed")
    ELSE returned(with_top(s, IF pointer_type = "option"
                              THEN [traverse EXCEPT !.mix = mix_reset(@, pointer_val)]
                              ELSE traverse),
                  "continuation@process#unsatisfied")

\* loopflow, the pointer is on the prefix: the command has no prefixes
at_prefix(s, traverse) ==
    noted(with_top(s, [traverse EXCEPT !.ref = ref_header(ref_parent(@))]), "prefix")

\* loopflow, the pointer is on the header
at_header(s, traverse, context, token) ==
    IF token = context.header
    THEN noted(with_top(apply(s), [traverse EXCEPT !.ref = ref_parent(@)]), "header")
    ELSE returned(apply(s), "panic@header-match#mismatch")

\* context hard switch: the traverse of the subcommand is pushed
switched(s, traverse, token, context, grammar) ==
    noted([with_top(apply(s), [traverse EXCEPT !.mix = mix_complete_all(@)])
           EXCEPT !.traverses =
               Append(@, SubcommandTraverse(token, ref_subcommand(traverse.ref, token),
                                            new_mix(SubcommandPattern(token, grammar))))],
          "switch")

\* the track forward of the main line, pointer_type being the one read at the
\* beginning of the iteration
mainline(s, traverse, context, pointer_type, pointer_val) ==
    IF pointer_type = "subcommand"
    THEN (IF track_assignable(traverse.mix[context.header])
          THEN noted(with_top(apply(s),
                              [traverse EXCEPT !.mix[context.header] = track_forward(@)]),
                     "forward")
          ELSE returned(noted(with_top(s, traverse), "panic"),
                        "panic@subcommand-process#unexpected-segment"))
    ELSE (IF track_assignable(traverse.mix[pointer_val])
          THEN noted(with_top(apply(s),
                              [traverse EXCEPT !.mix[pointer_val] = track_forward(@)]),
                     "forward")
          ELSE noted(with_top(s, option_completed([traverse EXCEPT !.ref = ref_parent(@)])),
                     "leave"))

\* context.compacts.get_closest_prefix(token): the longest compact keyword the token
\* begins with (<<>>: none)
get_closest_prefix(compacts, token) ==
    IF \E p \in compacts : StartsWith(token, p)
    THEN CHOOSE p \in compacts :
             StartsWith(token, p) /\ \A q \in compacts : StartsWith(token, q) => Len(q) <= Len(p)
    ELSE <<>>

\* a token that begins with a compact keyword is cut in two: the keyword goes to
\* buffer.ahead and the rest is pushed back; a rest without text is no rune
redirected(s, traverse, prefix, token) ==
    noted([with_top(apply(s), traverse) EXCEPT
               !.ahead = Append(apply(s).ahead, prefix),
               !.runes = IF Len(token) = Len(prefix) THEN apply(s).runes
                         ELSE <<SubSeq(token, Len(prefix) + 1, Len(token))>>
                              \o apply(s).runes],
          "redirect")

\* loopflow from `if context.compacts is not None` on
compacts(s, traverse, context, pointer_type, pointer_val, token, prefix) ==
    IF /\ prefix # <<>>
       /\ IF prefix \in context.subcommands THEN mix_satisfied(traverse.mix)
          ELSE IF prefix \in DOMAIN context.options
          THEN track_assignable(traverse.mix[prefix]) \/ context.options[prefix].allow_duplicate
          ELSE FALSE
    THEN redirected(s, traverse, prefix, token)
    ELSE mainline(s, traverse, context, pointer_type, pointer_val)

\* loopflow, the pointer on the subcommand and the token one of its options
enter_option(s, traverse, context, token) ==
    IF /\ ~context.options[token].allow_duplicate
       /\ \E i \in 1..Len(traverse.option_traverses) :
             traverse.option_traverses[i].trigger = token
    THEN returned(noted(with_top(s, [traverse EXCEPT
                                         !.ref = IF context.options[token].max > 0
                                                 THEN ref_option(@, token) ELSE @]),
                        "panic"),
                  "panic@option-process#duplicated")
    ELSE noted(with_top(apply(s),
                        [traverse EXCEPT
                             !.ref = IF context.options[token].max > 0
                                     THEN ref_option(@, token) ELSE @,
                             !.option_traverses =
                                 Append(@, OptionTraverse(token,
                                                          context.options[token].max = 0))]),
               "enter")

\* loopflow, the pointer on the subcommand (or, with .ref already moved, what follows)
at_subcommand(s, traverse, context, token) ==
    IF token \in context.subcommands
    THEN (IF \/ mix_satisfied(traverse.mix)
             \/ ~SubcommandPattern(token, s.grammar).satisfy_previous
          THEN switched(s, traverse, token, context, s.grammar)
          ELSE IF ~SubcommandPattern(token, s.grammar).soft_keyword
          THEN returned(noted(s, "panic"), "panic@subcommand-switch#unsatisfied")
          ELSE compacts(s, traverse, context, "subcommand", <<>>, token,
                        get_closest_prefix(context.compacts, token)))
    ELSE IF token \in DOMAIN context.options
    THEN (IF ~context.options[token].soft_keyword \/ mix_satisfied(traverse.mix)
          THEN enter_option(s, traverse, context, token)
          ELSE compacts(s, traverse, context, "subcommand", <<>>, token,
                        get_closest_prefix(context.compacts, token)))
    ELSE compacts(s, traverse, context, "subcommand", <<>>, token,
                  get_closest_prefix(context.compacts, token))

\* loopflow, the pointer on an option and the token a subcommand of the context; the
\* track is the one of the option the pointer is on
option_to_subcommand(s, traverse, context, pointer_val, token, left) ==
    IF ~track_satisfied(traverse.mix[pointer_val])
    THEN (IF ~SubcommandPattern(token, s.grammar).soft_keyword
          THEN returned(noted(with_top(s, [traverse EXCEPT !.mix = mix_reset(@, pointer_val)]),
                              "panic"),
                        "panic@option-switch#unsatisfied")
          ELSE compacts(s, traverse, context, "option", pointer_val, token,
                        get_closest_prefix(context.compacts, token)))
    ELSE IF mix_satisfied(left.mix) THEN switched(s, left, token, context, s.grammar)
    ELSE IF ~SubcommandPattern(token, s.grammar).soft_keyword
    THEN returned(noted(with_top(s, left), "panic"), "panic@subcommand-switch#unsatisfied")
    ELSE compacts(s, left, context, "option", pointer_val, token,
                  get_closest_prefix(context.compacts, token))

\* loopflow, the pointer on an option and the token an option of the context; the
\* track is the one of the option the token names
option_to_option(s, traverse, context, pointer_val, token) ==
    IF ~track_satisfied(traverse.mix[token])
    THEN (IF ~context.options[token].soft_keyword
          THEN returned(noted(with_top(s, [traverse EXCEPT !.mix = mix_reset(@, token)]),
                              "panic"),
                        "panic@option-switch#prohibited-direction")
          ELSE compacts(s, traverse, context, "option", pointer_val, token,
                        get_closest_prefix(context.compacts, token)))
    ELSE noted(with_top(s, option_completed([traverse EXCEPT
                                                 !.mix[token] = track_complete(@),
                                                 !.ref = ref_parent(@)])),
               "leave")

at_option(s, traverse, context, pointer_val, token) ==
    IF token \in context.subcommands
    THEN option_to_subcommand(s, traverse, context, pointer_val, token,
                              option_completed([traverse EXCEPT
                                                    !.mix[pointer_val] = track_complete(@),
                                                    !.ref = ref_parent(@)]))
    ELSE IF token \in DOMAIN context.options
    THEN option_to_option(s, traverse, context, pointer_val, token)
    ELSE compacts(s, traverse, context, "option", pointer_val, token,
                  get_closest_prefix(context.compacts, token))

\* what the iteration read: the token, the pointer, whether the token is a soft keyword
\* of the context, whether the mix and the track of the pointer are satisfied
read(s, traverse, context, pointer_type, pointer_val, token) ==
    [s EXCEPT !.ev =
        [kind |-> "none", token |-> token, pointer |-> pointer_type,
         soft |-> \/ /\ token \in context.subcommands
                     /\ SubcommandPattern(token, s.grammar).soft_keyword
                  \/ /\ token \in DOMAIN context.options
                     /\ context.options[token].soft_keyword,
         mix |-> mix_satisfied(traverse.mix),
         track |-> track_satisfied(traverse.mix[IF pointer_type = "option" THEN pointer_val
                                                ELSE context.header]),
         pointer_val |-> pointer_val, ref |-> traverse.ref,
         option_traverses |-> traverse.option_traverses,
         runes |-> s.runes, ahead |-> s.ahead]]

\* one iteration of the loop, the pointer being pointer_type, pointer_val
iteration(s, traverse, context, pointer_type, pointer_val) ==
    IF ~has_token(s)
    THEN out_of_data(read(s, traverse, context, pointer_type, pointer_val, <<>>), traverse,
                     pointer_type, pointer_val)
    ELSE IF pointer_type = "prefix" THEN at_prefix(s, traverse)
    ELSE IF pointer_type = "header" THEN at_header(s, traverse, context, next_token(s))
    ELSE IF pointer_type = "subcommand"
    THEN at_subcommand(read(s, traverse, context, pointer_type, pointer_val, next_token(s)),
                       traverse, context, next_token(s))
    ELSE at_option(read(s, traverse, context, pointer_type, pointer_val, next_token(s)),
                   traverse, context, pointer_val, next_token(s))

\* Analyzer.loopflow: one turn of `while True`; a pointer without data has no last item
loopflow(s) ==
    IF s.determined /\ mix_satisfied(top(s).mix) THEN returned(s, "completed")
    ELSE IF top(s).ref = <<>> THEN returned(s, "IndexError")
    ELSE iteration(s, top(s), SubcommandPattern(top(s).subcommand, s.grammar),
                   top(s).ref[Len(top(s).ref)][1], top(s).ref[Len(top(s).ref)][2])

\* the tokens of the buffers
SisTokens ==
    {SoftSub, FreeSub, HardSub, SoftOpt, FlagOpt, HardOpt, PairOpt, Datum, HardOpt \o Datum}
SisBuffers ==
    { <<Cmd>> \o rest : rest \in UNION { [1..n -> SisTokens] : n \in 0..MaxSisTokens } }
    \cup { <<Datum>> }
Grammars == [header : {0, 1}, option : {0, 1}, pair : {0, 2}]

notSistana == <<analyser, last, sub, argv, prs, hdr, sc, mgr, spl, cmp, lru, bhv, cpt, alc>>

\* a snapshot of the command and a buffer are handed to loopflow
Enter ==
    /\ sis.pc = "idle"
    /\ \E runes \in SisBuffers, grammar \in Grammars :
          sis' = [SisIdle EXCEPT
                     !.pc = "loop", !.runes = runes, !.grammar = grammar,
                     !.traverses =
                         <<SubcommandTraverse(Cmd, <<<<"subcommand", Cmd>>, <<"prefix", <<>>>>>>,
                                              new_mix(SubcommandPattern(Cmd, grammar)))>>]
    /\ UNCHANGED notSistana

\* one turn of the loop
Loopflow ==
    /\ sis.pc = "loop"
    /\ \E s \in { loopflow(sis) } : sis' = s
    /\ UNCHANGED notSistana

NextSistana == Enter \/ Loopflow

SpecSistana == InitParse /\ [][NextSistana]_vars

\* the loop goes on as long as it has not returned: a turn that can be taken is taken
SpecSistanaFair == InitParse /\ [][NextSistana]_vars /\ WF_vars(Loopflow)

(***************************************************************************)
(* util.LruCache: an OrderedDict from the least to the most recently used  *)
(* key, the record table (kept as the set of its keys) and the size.       *)
(***************************************************************************)
MaxLruCount == 4

\* LruCache(max_size)
LruCache(max_size) == [max_size |-> max_size, cache |-> <<>>, record |-> {}, size |-> 0]

\* what a call gave: the cache object, the exception it raised, what it returned
LruDone(o, err, ret) == [o |-> o, err |-> err, ret |-> ret]

\* OrderedDict.move_to_end(key)
move_to_end(d, key) == Append(dict_pop(d, key), [key |-> key, value |-> dict_get(d, key)])

\* LruCache.get(key, default): __getitem__, its KeyError caught; 0 is the default
lru_get(o, key) ==
    IF dict_has(o.cache, key)
    THEN LruDone([o EXCEPT !.cache = move_to_end(@, key)], "", dict_get(o.cache, key))
    ELSE LruDone(o, "", 0)

\* LruCache.set(key, value): record.pop(_k) raises KeyError when the entry popped is
\* the one just stored
lru_set(o, key, value) ==
    IF dict_has(o.cache, key) THEN LruDone(o, "", 0)
    ELSE IF 0 < o.max_size /\ o.max_size < o.size + 1
    THEN (IF dict_set(o.cache, key, value)[1].key \notin o.record
          THEN LruDone([o EXCEPT !.cache = Tail(dict_set(o.cache, key, value)),
                                 !.size = @ + 1],
                       "KeyError", 0)
          ELSE LruDone([o EXCEPT !.cache = Tail(dict_set(o.cache, key, value)),
                                 !.record = (@ \ {o.cache[1].key}) \cup {key}],
                       "", 0))
    ELSE LruDone([o EXCEPT !.cache = dict_set(@, key, value), !.size = @ + 1,
                           !.record = @ \cup {key}],
                 "", 0)

\* LruCache.delete(key)
lru_delete(o, key) ==
    IF ~dict_has(o.cache, key) THEN LruDone(o, "KeyError", 0)
    ELSE IF key \notin o.record
    THEN LruDone([o EXCEPT !.cache = dict_pop(@, key)], "KeyError", 0)
    ELSE LruDone([o EXCEPT !.cache = dict_pop(@, key), !.record = @ \ {key}], "", 0)

\* LruCache.clear(): the cache and the record table are emptied
lru_clear(o) == LruDone([o EXCEPT !.cache = <<>>, !.record = {}], "", 0)

\* LruCache.update(): key is what random.choice gave of the cache's keys (IndexError
\* on an empty cache); expired holds the keys whose record has a positive expiration
\* that has run out by now
lru_update(o, key, expired) ==
    IF o.cache = <<>> THEN LruDone(o, "IndexError", 0)
    ELSE IF key \notin o.record THEN LruDone(o, "KeyError", 0)
    ELSE IF key \in expired THEN lru_delete(o, key)
    ELSE LruDone(o, "", 0)

\* LruCache.update_all() from the i-th key of the iteration over cache.keys(): the
\* step of the iterator after a delete raises RuntimeError, and after the delete of
\* the last key the iteration is over
RECURSIVE update_all_from(_, _, _)
update_all_from(o, i, expired) ==
    IF i > Len(o.cache) THEN LruDone(o, "", 0)
    ELSE IF o.cache[i].key \notin o.record THEN LruDone(o, "KeyError", 0)
    ELSE IF o.cache[i].key \in expired
    THEN (IF i < Len(o.cache)
          THEN LruDone(lru_delete(o, o.cache[i].key).o, "RuntimeError", 0)
          ELSE lru_delete(o, o.cache[i].key))
    ELSE update_all_from(o, i + 1, expired)

lru_update_all(o, expired) == update_all_from(o, 1, expired)

LruKeys == {"a", "b", "c"}
LruValues == {1, 2}
LruSizes == {1, 2}

notLru == <<analyser, last, sub, argv, prs, hdr, sc, mgr, spl, cmp, sis, bhv, cpt, alc>>

\* the call a thread is in: its position, its arguments and locals, and whether it
\* failed after its own test of the key had passed (late)
ThreadIdle ==
    [pc |-> "idle", op |-> "none", key |-> "", value |-> 0, k |-> "", err |-> "",
     late |-> FALSE, ret |-> 0]

\* the cache is made
NewLru ==
    /\ lru.op = "none"
    /\ \E max_size \in LruSizes :
          lru' = [lru EXCEPT !.o = LruCache(max_size), !.op = "new", !.pre = LruCache(max_size)]
    /\ UNCHANGED notLru

\* one call of one caller: r is what the call gives
LruCalled(op, key, value, r) ==
    lru' = [lru EXCEPT !.o = r.o, !.op = op, !.key = key, !.value = value, !.pre = lru.o,
                       !.err = r.err, !.ret = r.ret]

Set ==
    /\ lru.op # "none" /\ lru.o.size < MaxLruCount
    /\ \E key \in LruKeys, value \in LruValues :
          LruCalled("set", key, value, lru_set(lru.o, key, value))
    /\ UNCHANGED notLru

Get ==
    /\ lru.op # "none"
    /\ \E key \in LruKeys : LruCalled("get", key, 0, lru_get(lru.o, key))
    /\ UNCHANGED notLru

LruDelete ==
    /\ lru.op # "none"
    /\ \E key \in LruKeys : LruCalled("delete", key, 0, lru_delete(lru.o, key))
    /\ UNCHANGED notLru

Clear ==
    /\ lru.op # "none"
    /\ LruCalled("clear", "", 0, lru_clear(lru.o))
    /\ UNCHANGED notLru

\* one expiry update of one entry
LruUpdate ==
    /\ lru.op # "none"
    /\ \E key \in (IF lru.o.cache = <<>> THEN {""} ELSE dict_keys(lru.o.cache)),
          expired \in SUBSET LruKeys :
          LruCalled("update", key, 0, lru_update(lru.o, key, expired))
    /\ UNCHANGED notLru

\* one expiry update of every entry
UpdateAll ==
    /\ lru.op # "none"
    /\ \E expired \in SUBSET LruKeys :
          LruCalled("update_all", "", 0, lru_update_all(lru.o, expired))
    /\ UNCHANGED notLru

NextLru == NewLru \/ Set \/ Get \/ LruDelete \/ Clear \/ LruUpdate \/ UpdateAll

SpecLru == InitParse /\ [][NextLru]_vars

(***************************************************************************)
(* util.LruCache used by two threads: a call is a row of statements, and   *)
(* the statements of the two calls are interleaved.                        *)
(***************************************************************************)
Threads == {1, 2}
ThreadKeys == {"a", "b"}

\* thread t goes to pc
at(t, pc) == [lru EXCEPT !.threads[t].pc = pc]
\* thread t ends its call with an exception
failed(l, t, late) ==
    [l EXCEPT !.threads[t].pc = "done", !.threads[t].err = "KeyError",
              !.threads[t].late = late]

\* the cache the threads share is made
NewShared ==
    /\ lru.op = "none"
    /\ lru' = [lru EXCEPT !.o = LruCache(1), !.op = "shared", !.pre = LruCache(1)]
    /\ UNCHANGED notLru

\* a thread calls set, get or delete
Call(t) ==
    /\ lru.op = "shared" /\ lru.threads[t].pc = "idle" /\ lru.o.size < MaxLruCount
    /\ \E op \in {"set_check", "get_check", "delete_check"}, key \in ThreadKeys :
          lru' = [lru EXCEPT !.threads[t] =
                     [ThreadIdle EXCEPT !.pc = op, !.op = op, !.key = key, !.value = 1]]
    /\ UNCHANGED notLru

\* set: if key in self.cache: return
SetCheck(t) ==
    /\ lru.threads[t].pc = "set_check"
    /\ lru' = at(t, IF dict_has(lru.o.cache, lru.threads[t].key) THEN "done" ELSE "set_store")
    /\ UNCHANGED notLru

\* set: self.cache[key] = value
SetStore(t) ==
    /\ lru.threads[t].pc = "set_store"
    /\ lru' = [at(t, "set_count") EXCEPT
                  !.o.cache = dict_set(@, lru.threads[t].key, lru.threads[t].value)]
    /\ UNCHANGED notLru

\* set: self.__size += 1; if 0 < self.max_size < self.__size:
SetCount(t) ==
    /\ lru.threads[t].pc = "set_count"
    /\ lru' = [at(t, IF 0 < lru.o.max_size /\ lru.o.max_size < lru.o.size + 1
                     THEN "set_evict" ELSE "set_record")
               EXCEPT !.o.size = @ + 1]
    /\ UNCHANGED notLru

\* set: _k = self.cache.popitem(last=False)[0]
SetEvict(t) ==
    /\ lru.threads[t].pc = "set_evict"
    /\ lru' = IF lru.o.cache = <<>> THEN failed(lru, t, TRUE)
              ELSE [at(t, "set_forget") EXCEPT !.o.cache = Tail(@),
                                               !.threads[t].k = lru.o.cache[1].key]
    /\ UNCHANGED notLru

\* set: self.record.pop(_k)
SetForget(t) ==
    /\ lru.threads[t].pc = "set_forget"
    /\ lru' = IF lru.threads[t].k \notin lru.o.record THEN failed(lru, t, TRUE)
              ELSE [at(t, "set_uncount") EXCEPT !.o.record = @ \ {lru.threads[t].k}]
    /\ UNCHANGED notLru

\* set: self.__size -= 1
SetUncount(t) ==
    /\ lru.threads[t].pc = "set_uncount"
    /\ lru' = [at(t, "set_record") EXCEPT !.o.size = @ - 1]
    /\ UNCHANGED notLru

\* set: self.record[key] = (...)
SetRecord(t) ==
    /\ lru.threads[t].pc = "set_record"
    /\ lru' = [at(t, "done") EXCEPT !.o.record = @ \cup {lru.threads[t].key}]
    /\ UNCHANGED notLru

\* delete: if key not in self.cache: raise KeyError(key)
DeleteCheck(t) ==
    /\ lru.threads[t].pc = "delete_check"
    /\ lru' = IF dict_has(lru.o.cache, lru.threads[t].key) THEN at(t, "delete_cache")
              ELSE failed(lru, t, FALSE)
    /\ UNCHANGED notLru

\* delete: self.cache.pop(key)
DeleteCache(t) ==
    /\ lru.threads[t].pc = "delete_cache"
    /\ lru' = IF ~dict_has(lru.o.cache, lru.threads[t].key) THEN failed(lru, t, TRUE)
              ELSE [at(t, "delete_record") EXCEPT !.o.cache = dict_pop(@, lru.threads[t].key)]
    /\ UNCHANGED notLru

\* delete: self.record.pop(key)
DeleteRecord(t) ==
    /\ lru.threads[t].pc = "delete_record"
    /\ lru' = IF lru.threads[t].key \notin lru.o.record THEN failed(lru, t, TRUE)
              ELSE [at(t, "done") EXCEPT !.o.record = @ \ {lru.threads[t].key}]
    /\ UNCHANGED notLru

\* __getitem__: if key in self.cache; get returns the default on KeyError
GetCheck(t) ==
    /\ lru.threads[t].pc = "get_check"
    /\ lru' = at(t, IF dict_has(lru.o.cache, lru.threads[t].key) THEN "get_move" ELSE "done")
    /\ UNCHANGED notLru

\* __getitem__: self.cache.move_to_end(key)
GetMove(t) ==
    /\ lru.threads[t].pc = "get_move"
    /\ lru' = IF ~dict_has(lru.o.cache, lru.threads[t].key) THEN at(t, "done")
              ELSE [at(t, "get_item") EXCEPT !.o.cache = move_to_end(@, lru.threads[t].key)]
    /\ UNCHANGED notLru

\* __getitem__: return self.cache[key]
GetItem(t) ==
    /\ lru.threads[t].pc = "get_item"
    /\ lru' = IF ~dict_has(lru.o.cache, lru.threads[t].key) THEN at(t, "done")
              ELSE [at(t, "done") EXCEPT
                       !.threads[t].ret = dict_get(lru.o.cache, lru.threads[t].key)]
    /\ UNCHANGED notLru

\* the call of the thread is over
Return(t) ==
    /\ lru.threads[t].pc = "done"
    /\ lru' = [lru EXCEPT !.threads[t] = ThreadIdle]
    /\ UNCHANGED notLru

NextThreads ==
    \/ NewShared
    \/ \E t \in Threads :
          \/ Call(t) \/ Return(t)
          \/ SetCheck(t) \/ SetStore(t) \/ SetCount(t) \/ SetEvict(t) \/ SetForget(t)
          \/ SetUncount(t) \/ SetRecord(t)
          \/ DeleteCheck(t) \/ DeleteCache(t) \/ DeleteRecord(t)
          \/ GetCheck(t) \/ GetMove(t) \/ GetItem(t)

SpecThreads == InitParse /\ [][NextThreads]_vars

(***************************************************************************)
(* builtin.py: the set_default behavior on a parse result.  The result is  *)
(* kept as the values it holds by path; query gives None for a path        *)
(* without a value.                                                        *)
(***************************************************************************)
MISSING == [t |-> "missing", s |-> <<>>, n |-> 0]

\* _SetDefault(_default, _default_factory, path); the factory is kept as the value it
\* returns, and <<>> is no path
_SetDefault(_default, _default_factory, path) ==
    [_default |-> _default, _default_factory |-> _default_factory, path |-> path]

\* set_default(value=..., factory=..., path=...)
set_default(value, factory, path) ==
    IF value # MISSING /\ factory # MISSING
    THEN [exc |-> "ValueError", res |-> _SetDefault(MISSING, MISSING, <<>>)]
    ELSE [exc |-> "", res |-> _SetDefault(value, factory, path)]

\* bool(value) of Python
bool(d) ==
    IF d.t = "none" THEN FALSE
    ELSE IF d.t = "int" THEN d.n # 0
    ELSE IF d.t \in {"str", "list", "tuple", "dict"} THEN d.s # <<>>
    ELSE TRUE

\* Arparma.query(path) and ArparmaBehavior.update(interface, path, value)
query(interface, path) == IF path \in DOMAIN interface THEN interface[path] ELSE NoneVal
update(interface, path, value) == Put(interface, path, value)

\* _SetDefault.operate(interface), the default property included
operate(self, interface) ==
    IF self.path = <<>> THEN [exc |-> "BehaveCancelled", interface |-> interface]
    ELSE IF self._default = MISSING /\ self._default_factory = MISSING
    THEN [exc |-> "BehaveCancelled", interface |-> interface]
    ELSE IF ~bool(query(interface, self.path))
    THEN [exc |-> "",
          interface |-> update(interface, self.path,
                               IF self._default # MISSING THEN self._default
                               ELSE self._default_factory)]
    ELSE [exc |-> "", interface |-> interface]

\* the paths of the results, the values parsed and the defaults
BhvPaths == { <<"a">>, <<"o", ".", "b">> }
BhvValues == { IntVal(0), IntVal(3), StrVal(<<>>), StrVal(<<"x">>), ListVal(<<>>) }
BhvDefaults == { MISSING, IntVal(5), IntVal(0) }
BhvResults == UNION { [P -> BhvValues] : P \in SUBSET BhvPaths }

notBehave == <<analyser, last, sub, argv, prs, hdr, sc, mgr, spl, cmp, sis, lru, cpt, alc>>

\* a parse gave its result
Parsed ==
    /\ \E interface \in BhvResults :
          bhv' = [BhvIdle EXCEPT !.op = "parsed", !.interface = interface, !.pre = interface]
    /\ UNCHANGED notBehave

\* the behavior pass: a set_default behavior operates on the result
Operate ==
    /\ bhv.op # "none"
    /\ \E value \in BhvDefaults, factory \in BhvDefaults, path \in BhvPaths \cup {<<>>} :
       \E b \in { set_default(value, factory, path) } :
          /\ b.exc = ""
          /\ \E r \in { operate(b.res, bhv.interface) } :
                bhv' = [bhv EXCEPT !.op = "operate", !.self = b.res, !.pre = bhv.interface,
                                   !.interface = r.interface, !.exc = r.exc]
    /\ UNCHANGED notBehave

NextBehave == Parsed \/ Operate

SpecBehave == InitParse /\ [][NextBehave]_vars

(***************************************************************************)
(* _internal/_handlers.analyse_compact_params: the params of                *)
(* analyser.compact_params are tried one after the other on a snapshot of  *)
(* the stream.  A param is an Option or the SubAnalyser of a Subcommand;   *)
(* SubAnalyser.process and SubAnalyser.result are not among the files of   *)
(* src and are modelled from their description: process reads the name of  *)
(* the subcommand, raises InvalidParam for another name and analyses the   *)
(* Args of the subcommand; result gives what process has gathered.         *)
(***************************************************************************)
SubcommandResult(value, args) == [value |-> value, args |-> args]

Subcommand(name, args) ==
    [name |-> name, dest |-> name, args |-> args, separators |-> {" "}]

\* what process raised and left of the stream, and what result() gives after it
Processed(v, exc, res) == [argv |-> v, exc |-> exc, res |-> res]

process_args(command, st) ==
    Processed(st.argv, st.exc,
              SubcommandResult(Ellipsis, IF st.exc = "" THEN st.result ELSE EmptyDict))

process_named(command, pick, r) ==
    IF ~r.is_str \/ r.data.s # command.name
    THEN Processed(r.argv, "InvalidParam", SubcommandResult(NoneVal, EmptyDict))
    ELSE process_args(command, analyse_args(r.argv, command.args, pick))

\* SubAnalyser.process(argv) followed by SubAnalyser.result()
process(v, command, pick) ==
    process_named(command, pick,
                  argv_next([v EXCEPT !.context = "Subcommand"], command.separators, TRUE))

\* a param of compact_params: an Option, or the SubAnalyser of a Subcommand
Param_(class, node) == [class |-> class, node |-> node]

\* what one turn of the loop of analyse_compact_params leaves: the stream, the two
\* results, and whether it returned True (hit), raised (exc) or went on
Tried(v, exc, hit, options_result, subcommands_result) ==
    [argv |-> v, exc |-> exc, hit |-> hit, options_result |-> options_result,
     subcommands_result |-> subcommands_result]

\* the except clause: an InvalidParam that is not from an Arg resets the stream
compact_except(snap, t) ==
    IF t.exc = "InvalidParam" /\ t.argv.context # "Arg"
    THEN [t EXCEPT !.argv = argv_data_reset(t.argv, snap), !.exc = ""]
    ELSE t

compact_option(snap, subcommands_result, t) ==
    compact_except(snap, Tried(t.argv, t.exc, t.exc = "", t.options_result,
                               subcommands_result))

\* the finally clause stores param.result() whatever process did
compact_subcommand(snap, options_result, subcommands_result, command, t) ==
    compact_except(snap, Tried(t.argv, t.exc, t.exc = "", options_result,
                               Put(subcommands_result, command.dest, t.res)))

\* one turn of the loop of analyse_compact_params, for param
compact_turn(options_result, subcommands_result, v, param, pick) ==
    IF param.class = "Option"
    THEN compact_option(argv_data_set(v), subcommands_result,
                        analyse_option(options_result, v, param.node, <<>>, pick))
    ELSE compact_subcommand(argv_data_set(v), options_result, subcommands_result,
                            param.node, process(v, param.node, pick))

(***************************************************************************)
(* The specification of the compact dispatch: a command line is handed to  *)
(* the Argv, the analyser holds results or none, and the loop of           *)
(* analyse_compact_params runs turn by turn over a subcommand, a compact   *)
(* option and a count option.                                              *)
(***************************************************************************)
CompactParams ==
    << Param_("Subcommand",
              Subcommand(<<"s", "u", "b">>,
                         NewArgs(<<NewArg(<<"n">>, "int", EmptyVal, FALSE)>>, <<>>, <<>>))),
       Param_("Option",
              NewOption(<<"-", "f">>, << <<"-", "f">> >>, TRUE, store,
                        NewArgs(<<NewArg(<<"y">>, "int", EmptyVal, FALSE)>>, <<>>, <<>>))),
       Param_("Option", NewOption(<<"-", "v">>, << <<"-", "v">> >>, FALSE, count(1), NoArgs)) >>

MaxCompactTokens == 2

CompactInputs ==
    UNION { [1..n -> { Chars(str) : str \in {"sub", "-f1", "-fx", "-vv", "1", "x"} }] :
            n \in 1..MaxCompactTokens }

\* the results the analyser holds when the token is met: none, or those of earlier tokens
HeldOptions ==
    { EmptyDict, Put(EmptyDict, <<"v">>, OptionResult(IntVal(1), EmptyDict)) }
HeldSubcommands ==
    { EmptyDict,
      Put(EmptyDict, <<"s", "u", "b">>,
          SubcommandResult(Ellipsis, Put(EmptyDict, <<"n">>, IntVal(1)))) }

notCompact == <<analyser, last, sub, prs, hdr, sc, mgr, spl, cmp, sis, lru, bhv, alc>>

\* analyse_compact_params is called
CompactCall ==
    /\ cpt.pc = "idle"
    /\ \E tokens \in CompactInputs, o \in HeldOptions, s \in HeldSubcommands :
          /\ argv' = argv_build(<<StrVal(join(tokens, " "))>>)
          /\ cpt' = [CptIdle EXCEPT !.pc = "loop", !.tokens = tokens, !.params = CompactParams,
                                    !.options_result = o, !.subcommands_result = s]
    /\ UNCHANGED notCompact

\* one turn of the for loop
CompactTurn ==
    /\ cpt.pc = "loop"
    /\ cpt.params # <<>>
    /\ \E t \in { compact_turn(cpt.options_result, cpt.subcommands_result, argv,
                               Head(cpt.params), " ") } :
          /\ argv' = t.argv
          /\ cpt' = [cpt EXCEPT !.pc = IF t.exc # "" THEN "raised"
                                       ELSE IF t.hit THEN "returned" ELSE "loop",
                                !.params = Tail(@),
                                !.options_result = t.options_result,
                                !.subcommands_result = t.subcommands_result,
                                !.exc = t.exc, !.ret = t.hit,
                                !.ev = [kind |-> IF t.exc # "" THEN "raised"
                                                 ELSE IF t.hit THEN "hit" ELSE "failed",
                                        class |-> Head(cpt.params).class,
                                        exc |-> IF t.exc # "" \/ t.hit THEN t.exc
                                                ELSE "InvalidParam",
                                        options_result |-> cpt.options_result,
                                        subcommands_result |-> cpt.subcommands_result]]
    /\ UNCHANGED notCompact

\* the loop is over: the function returns None
CompactReturn ==
    /\ cpt.pc = "loop"
    /\ cpt.params = <<>>
    /\ cpt' = [cpt EXCEPT !.pc = "returned", !.ret = FALSE, !.ev.kind = "none"]
    /\ UNCHANGED <<argv>>
    /\ UNCHANGED notCompact

NextCompact == CompactCall \/ CompactTurn \/ CompactReturn

SpecCompact == InitParse /\ [][NextCompact]_vars

(***************************************************************************)
(* core.py: the options of an Alconna.  An option is known by its name; a  *)
(* namespace by the builtin options it disables (disable_builtin_options). *)
(* Python's list.insert(-3, x) and list[:-3] count from the end of the     *)
(* list and stop at its beginning.                                         *)
(***************************************************************************)
MaxUserOptions == 3

\* add_builtin_options(options, ns)
add_builtin_options(_options, ns) ==
    _options
    \o (IF "help" \notin ns THEN <<"help">> ELSE <<>>)
    \o (IF "shortcut" \notin ns THEN <<"shortcut">> ELSE <<>>)
    \o (IF "completion" \notin ns THEN <<"completion">> ELSE <<>>)

\* options[:-3]
but_last_three(_options) ==
    IF Len(_options) <= 3 THEN <<>> ELSE SubSeq(_options, 1, Len(_options) - 3)

\* options.insert(-3, opt)
insert_third_last(_options, opt) ==
    IF Len(_options) <= 3 THEN <<opt>> \o _options
    ELSE SubSeq(_options, 1, Len(_options) - 3) \o <<opt>>
         \o SubSeq(_options, Len(_options) - 2, Len(_options))

\* Alconna.__init__: the options given, then the builtin options of the namespace
alconna_init(given, ns) ==
    [options |-> add_builtin_options(given, ns), namespace |-> ns]

\* Alconna.reset_namespace(namespace)
reset_namespace(self, ns) ==
    [self EXCEPT !.options = add_builtin_options(but_last_three(self.options), ns),
                 !.namespace = ns]

\* Alconna.add(opt)
alconna_add(self, opt) == [self EXCEPT !.options = insert_third_last(self.options, opt)]

(***************************************************************************)
(* The specification of the options: a command is made with some options   *)
(* of the user in a namespace, then options are added and the namespace is *)
(* reset in any order.                                                     *)
(***************************************************************************)
UserOptions == {"-a", "-b", "-c"}
BuiltinNamespaces == SUBSET {"help", "shortcut", "completion"}

\* the options of the user in every order, each one once
RECURSIVE Orders(_)
Orders(S) ==
    IF S = {} THEN { <<>> }
    ELSE UNION { { <<x>> \o rest : rest \in Orders(S \ {x}) } : x \in S }

notCore == <<analyser, last, sub, argv, prs, hdr, sc, mgr, spl, cmp, sis, lru, bhv, cpt>>

\* Alconna(...)
New ==
    /\ alc.op = "none"
    /\ \E S \in SUBSET UserOptions, ns \in BuiltinNamespaces :
       \E given \in Orders(S) :
          /\ Len(given) < MaxUserOptions
          /\ alc' = [AlcIdle EXCEPT !.op = "init", !.options = alconna_init(given, ns).options,
                                    !.namespace = ns, !.user = S]
    /\ UNCHANGED notCore

Add ==
    /\ alc.op # "none"
    /\ Cardinality(alc.user) < MaxUserOptions
    /\ \E opt \in UserOptions \ alc.user :
          alc' = [alconna_add(alc, opt) EXCEPT !.op = "add", !.user = @ \cup {opt},
                                               !.pre = alc.options]
    /\ UNCHANGED notCore

ResetNamespace ==
    /\ alc.op # "none"
    /\ \E ns \in BuiltinNamespaces :
          alc' = [reset_namespace(alc, ns) EXCEPT !.op = "reset_namespace",
                                                  !.pre = alc.options]
    /\ UNCHANGED notCore

NextCore == New \/ Add \/ ResetNamespace

SpecCore == InitParse /\ [][NextCore]_vars

(***************************************************************************)
(* C2.  A speculative match that fails with a parameter mismatch restores  *)
(* the stream to the snapshot taken before the attempt: raw data,          *)
(* current_index and content_index after the failed attempt are the ones   *)
(* before it, whatever the attempt consumed or overwrote.                  *)
(***************************************************************************)
C2_FailedAttemptRestores ==
    (last.op = "try_option" /\ sub.exc = "ParamsUnmatched")
    => /\ analyser.raw_data = last.pre.raw_data
       /\ analyser.current_index = last.pre.current_index
       /\ analyser.content_index = last.pre.content_index

(***************************************************************************)
(* C1.  Rollback is the inverse of next: after next_data (pop) returned a  *)
(* pending, non-empty token and reduce_data put it back, current_index and *)
(* content_index are the ones before the next_data, the pending text is    *)
(* the original one, and the following next_data returns the same          *)
(* (token, is_string).                                                     *)
(***************************************************************************)
C1_RollbackConservation ==
    (last.op = "reduce_data" /\ Truthy(last.data) /\ last.pre.err = "")
    => /\ analyser.err = ""
       /\ analyser.current_index = last.pre.current_index
       /\ analyser.content_index = last.pre.content_index
       /\ analyser.raw_data = last.pre.raw_data
       /\ LET again == next_data(analyser, last.separate, TRUE)
          IN  again.data = last.data /\ again.is_str = last.is_str

(***************************************************************************)
(* C3.  current_index never exceeds ndata, whatever sequence of next,      *)
(* rollback, release and wildcard absorption was made; and next_data with  *)
(* current_index = ndata returns the empty string and does not advance.    *)
(***************************************************************************)
C3_IndexWithinData ==
    /\ analyser.current_index <= analyser.ndata
    /\ (last.op = "next_data" /\ last.pre.current_index = last.pre.ndata)
       => /\ last.data = StrVal(<<>>) /\ last.is_str
          /\ analyser.current_index = last.pre.current_index
          /\ analyser.content_index = last.pre.content_index

\* next_data was called at the end of the data, after a release or an absorption
C3_Witness ==
    /\ last.op = "next_data" /\ last.pop
    /\ last.pre.ndata = 2 /\ last.pre.current_index = last.pre.ndata
    /\ analyser.current_index = analyser.ndata

\* the tokens of an error_data: every string of it split again, the units as they are
RECURSIVE error_tokens(_)
error_tokens(error_data) ==
    IF error_data = <<>> THEN <<>>
    ELSE (IF IsStr(Head(error_data))
          THEN LET res == split(Head(error_data).s, separators)
               IN  [i \in 1..Len(res) |-> StrVal(res[i])]
          ELSE <<Head(error_data)>>)
         \o error_tokens(Tail(error_data))

(***************************************************************************)
(* C10.  A parse failure that is not re-raised gives a result with         *)
(* matched = false whose error_data is the tokens not yet consumed at the  *)
(* point of failure, and the analyser is reset for the next parse.         *)
(***************************************************************************)
C10_FailureExported ==
    (last.op = "export" /\ last.plain)
    => /\ ~last.matched
       /\ error_tokens(last.result) = last.rest
       /\ analyser = reset

(***************************************************************************)
(* C4.  Every Args validation step either consumes the tokens it tested    *)
(* or rolls them back: a slot whose validation succeeded has moved the     *)
(* stream forward, and after a failed validation (an error, or a default   *)
(* taken instead) of a normal, keyword-only or variadic-keyword slot the   *)
(* stream is at the index it had before the slot read its first token,     *)
(* also when the key and the value were two tokens.                        *)
(***************************************************************************)
C4_ValidationConsumesOrRollsBack ==
    \A i \in 1..Len(prs.log) :
        /\ prs.log[i].kind = "valid" => prs.log[i].to > prs.log[i].from
        /\ prs.log[i].kind \in {"error", "default"} => prs.log[i].to = prs.log[i].from

\* the occurrences of the option of that dest matched so far, in input order
OccsOf(dest) == SelectSeq(prs.occs, LAMBDA o : o.dest = dest)

\* the values those occurrences gave to the arg `key`, in input order
RECURSIVE Given(_, _)
Given(occs, key) ==
    IF occs = <<>> THEN <<>>
    ELSE (IF key \in DOMAIN Head(occs).res.args THEN <<Head(occs).res.args[key]>> ELSE <<>>)
         \o Given(Tail(occs), key)

ArgNames(opt) == { opt.args.normal[i].name : i \in 1..Len(opt.args.normal) }

AppendWithArgs == { i \in 1..Len(options) : options[i].action.type = 1 /\ options[i].nargs > 0 }

(***************************************************************************)
(* C5.  An append option that takes args and has been given N >= 1 times:  *)
(* the result of each of its args is a list of length N whose i-th element *)
(* is the value the i-th occurrence gave.                                  *)
(***************************************************************************)
C5_AppendListOfEveryOccurrence ==
    \A o \in AppendWithArgs :
        LET occs == OccsOf(options[o].dest)
        IN  Len(occs) >= 1 =>
              \A key \in ArgNames(options[o]) :
                  /\ key \in DOMAIN prs.options_result[options[o].dest].args
                  /\ Len(prs.options_result[options[o].dest].args[key].s) = Len(occs)
                  /\ \A i \in 1..Len(occs) :
                        /\ key \in DOMAIN occs[i].res.args
                        /\ prs.options_result[options[o].dest].args[key].s[i]
                           = occs[i].res.args[key]

(***************************************************************************)
(* C5, amended.  The result of each arg of an append option is the list,   *)
(* in input order, of the values given by the occurrences that bound the   *)
(* arg; an arg no occurrence bound is absent.  (The list has length N when *)
(* all N occurrences bind the arg.)                                        *)
(***************************************************************************)
C5_AppendListOfBoundOccurrences ==
    \A o \in AppendWithArgs :
        LET occs == OccsOf(options[o].dest)
            args == prs.options_result[options[o].dest].args
        IN  Len(occs) >= 1 =>
              \A key \in ArgNames(options[o]) :
                  Given(occs, key) = (IF key \in DOMAIN args THEN args[key].s ELSE <<>>)

C5_Witness ==
    /\ prs.pc = "done"
    /\ Len(OccsOf(<<"a">>)) = 2
    /\ Len(prs.options_result[<<"a">>].args[<<"e">>].s) = 2
    /\ <<"x">> \in DOMAIN prs.options_result[<<"a">>].args
    /\ Len(prs.options_result[<<"a">>].args[<<"x">>].s) = 1

\* an earlier value is still there: a list is continued, a single value is the same
Kept(new, old) ==
    IF old.t = "list"
    THEN new.t = "list" /\ Len(old.s) <= Len(new.s) /\ SubSeq(new.s, 1, Len(old.s)) = old.s
    ELSE new = old

\* the merge of the occurrence o into old, giving new, accounts for old: the count of o
\* is added, the values of old are kept
MergeKeeps(o, old, new) ==
    /\ (o.type = 2 /\ o.nargs = 0) => new.value.n = old.value.n + o.res.value.n
    /\ (o.type = 1 /\ o.nargs = 0) =>
          /\ Kept(new.value, old.value)
          /\ Len(new.value.s) = Len(old.value.s) + Len(o.res.value.s)
    /\ o.nargs > 0 =>
          \A key \in DOMAIN old.args :
              key \in DOMAIN new.args /\ Kept(new.args[key], old.args[key])

\* the last step matched an option that had a result already
Merged == prs.occ # <<>> /\ prs.occ[1].dest \in DOMAIN prs.pre_options

(***************************************************************************)
(* C6.  Merging a repeated option under action append or count never drops *)
(* what an earlier occurrence contributed: its count is added, its arg     *)
(* values are still present, for options with and without args.            *)
(***************************************************************************)
C6_MergeNeverDrops ==
    (Merged /\ prs.occ[1].type \in {1, 2})
    => MergeKeeps(prs.occ[1], prs.pre_options[prs.occ[1].dest],
                  prs.options_result[prs.occ[1].dest])

(***************************************************************************)
(* C6, amended.  The same for append options with or without args and for  *)
(* count options without args; a count option that takes args is replaced  *)
(* by its latest occurrence.                                               *)
(***************************************************************************)
C6_MergeNeverDropsButCountArgs ==
    (Merged /\ prs.occ[1].type \in {1, 2} /\ ~(prs.occ[1].type = 2 /\ prs.occ[1].nargs > 0))
    => MergeKeeps(prs.occ[1], prs.pre_options[prs.occ[1].dest],
                  prs.options_result[prs.occ[1].dest])

C6_Witness ==
    /\ Merged /\ prs.occ[1].type = 1 /\ prs.occ[1].nargs > 0
    /\ <<"x">> \in DOMAIN prs.pre_options[<<"a">>].args
    /\ <<"x">> \in DOMAIN prs.occ[1].res.args
    /\ Len(prs.options_result[<<"a">>].args[<<"x">>].s) = 2

\* the text made of "-" and n repetitions of the alias without its dashes
Glued(al, n) ==
    <<"-">> \o [i \in 1..(n * Len(strip_dashes(al))) |->
                    strip_dashes(al)[((i - 1) % Len(strip_dashes(al))) + 1]]

CountOptions == { i \in 1..Len(options) : options[i].action.type = 2 /\ options[i].nargs = 0 }

(***************************************************************************)
(* C7.  For a count option, n glued repetitions of an alias (-vvv) give    *)
(* the same option result as n separate occurrences (-v -v -v), for every  *)
(* n >= 1 and every action value.                                          *)
(***************************************************************************)
C7_GluedEqualsSeparate ==
    \A o \in CountOptions, n \in 1..MaxTokens :
        (prs.pc = "done" /\ prs.tokens = <<Glued(options[o].aliases[1], n)>>)
        => prs.options_result
           = parse([k \in 1..n |-> options[o].aliases[1]]).prs.options_result

(***************************************************************************)
(* C8.  Re-entering an option that is not allow_duplicate within the same  *)
(* scope raises: when the last step was given such an option that had been *)
(* matched before in this parse, the step has not accepted it.             *)
(***************************************************************************)
C8_DuplicateRejected ==
    \A i \in 1..Len(options) :
        (~options[i].allow_duplicate /\ Len(OccsOf(options[i].dest)) >= 2)
        => (prs.occ = <<>> \/ prs.occ[1].dest # options[i].dest)

\* the token the last step began with, and the one after it
PreToken == prs.pre.raw_data[prs.pre.current_index + 1]
PreAtEnd == prs.pre.current_index + 1 = prs.pre.ndata
PreFollowing == prs.pre.raw_data[prs.pre.current_index + 2]

\* the last step was given an option all of whose args are optional normal args
OptionalArgsOption ==
    /\ prs.pc # "idle" /\ prs.pre.ndata > prs.pre.current_index
    /\ compile_params(PreToken.s) # 0
    /\ LET opt == options[compile_params(PreToken.s)]
       IN  /\ opt.args.normal # <<>> /\ Len(opt.args.normal) = opt.nargs
           /\ \A i \in 1..Len(opt.args.normal) : opt.args.normal[i].optional

\* no token was consumed after the option's name; an arg without default is absent
\* from the result and an arg with a default holds it
DefaultsInjected ==
    /\ prs.exc = "" /\ prs.occ # <<>>
    /\ argv.current_index = prs.pre.current_index + 1
    /\ LET opt == options[compile_params(PreToken.s)]
       IN  \A i \in 1..Len(opt.args.normal) :
              IF opt.args.normal[i].default = EmptyVal
              THEN opt.args.normal[i].name \notin DOMAIN prs.occ[1].res.args
              ELSE /\ opt.args.normal[i].name \in DOMAIN prs.occ[1].res.args
                   /\ prs.occ[1].res.args[opt.args.normal[i].name]
                      = opt.args.normal[i].default

(***************************************************************************)
(* C9.  An optional normal arg with no token present (the data is at its   *)
(* end, or the next token is a registered param id): without a default the *)
(* key is absent from the result, with a default the key holds the default;*)
(* no token is consumed.                                                   *)
(***************************************************************************)
C9_DefaultInjection ==
    (OptionalArgsOption /\ (PreAtEnd \/ PreFollowing.s \in argv_param_ids))
    => DefaultsInjected

(***************************************************************************)
(* C9, amended.  The same, for a next token that is a registered param id  *)
(* other than an enabled special keyword (the name of a builtin option):   *)
(* that one raises SpecialOptionTriggered before the arg is looked at.     *)
(***************************************************************************)
C9_DefaultInjectionButSpecial ==
    (OptionalArgsOption
     /\ (PreAtEnd \/ (PreFollowing.s \in argv_param_ids /\ ~IsSpecial([is_str |-> TRUE, data |-> PreFollowing, argv |-> prs.pre]))))
    => DefaultsInjected

C9_Witness ==
    /\ OptionalArgsOption /\ ~PreAtEnd /\ PreFollowing.s \in argv_param_ids
    /\ DefaultsInjected
    /\ prs.occ[1].res.args = Put(EmptyDict, <<"e">>, IntVal(7))

\* the last step of the dispatch loop began with a special keyword
PreSpecial ==
    /\ prs.pc # "idle" /\ prs.pre.ndata > prs.pre.current_index
    /\ IsStr(PreToken) /\ PreToken.s \in special

(***************************************************************************)
(* C11.  In every iteration of the dispatch loop, a next token that is a   *)
(* special keyword whose kind is not disabled raises                       *)
(* SpecialOptionTriggered before any option, compact or args handling      *)
(* (nothing is matched, validated or stored), even when the token is also  *)
(* a key of compile_params; when the kind is disabled the token is handled *)
(* as an ordinary token.                                                   *)
(***************************************************************************)
C11_SpecialFirst ==
    PreSpecial
    => IF "help" \notin prs.pre.disabled
       THEN /\ prs.exc = "SpecialOptionTriggered" /\ prs.branch = "special"
            /\ prs.options_result = prs.pre_options
            /\ prs.log = <<>> /\ prs.occ = <<>>
       ELSE prs.exc # "SpecialOptionTriggered" /\ prs.branch # "special"

C11_Witness ==
    /\ PreSpecial /\ "help" \notin prs.pre.disabled
    /\ compile_params(PreToken.s) # 0 /\ prs.pre.current_index > 0
    /\ prs.exc = "SpecialOptionTriggered" /\ prs.pre_options # EmptyDict

C11_WitnessDisabled ==
    /\ PreSpecial /\ "help" \in prs.pre.disabled /\ prs.branch = "option"

(***************************************************************************)
(* C12.  A special keyword met while analysing args (normal, keyword-only, *)
(* variadic or nested unpack args) reaches the top of the parse as         *)
(* SpecialOptionTriggered: no local defaulting site catches it.            *)
(***************************************************************************)
C12_SpecialNeverSwallowed ==
    \A i \in 1..Len(prs.log) :
        prs.log[i].kind = "caught" => prs.log[i].exc # "SpecialOptionTriggered"

(***************************************************************************)
(* C13.  A parse never modifies the compiled grammar: the Args objects the *)
(* options hold are, at every point of a parse, equal to what they were    *)
(* when the command was built.                                             *)
(***************************************************************************)
C13_GrammarUnchanged == prs.unpacks = unpacks

(***************************************************************************)
(* C14.  With compact set, a first token h + t, h a head the header        *)
(* accepts and t not empty, gives the HeadResult and the remaining tokens  *)
(* that the two tokens h, t give; a first token that begins with no        *)
(* accepted head is not matched.                                           *)
(***************************************************************************)
HeadDone == hdr.pc = "done" /\ hdr.gen = "internal" /\ hdr.header.compact

\* the stream whose first token is cut after its first n characters
CutFirst(tokens, n) ==
    argv_filled([i \in 1..Len(tokens) + 1 |->
                    IF i = 1 THEN StrVal(SubSeq(tokens[1], 1, n))
                    ELSE IF i = 2 THEN StrVal(SubSeq(tokens[1], n + 1, Len(tokens[1])))
                    ELSE StrVal(tokens[i - 1])])

SameHead(t) ==
    hdr.res = t.res /\ hdr.exc = t.exc /\ argv_release(argv) = argv_release(t.argv)

BeginsWithHead(text, header) == \E h \in header.content : StartsWith(text, h)

C14_CompactHeader ==
    HeadDone
    => /\ \A h \in hdr.header.content :
             StartsWith(hdr.tokens[1], h) /\ Len(hdr.tokens[1]) > Len(h)
             => SameHead(analyse_header(hdr.header, CutFirst(hdr.tokens, Len(h)), hdr.fuzzy))
       /\ ~BeginsWithHead(hdr.tokens[1], hdr.header) => hdr.res = <<>>

(***************************************************************************)
(* C15.  A compact option whose name token begins with one of its aliases  *)
(* consumes the alias and puts back exactly the rest of the token; a token *)
(* that begins with no alias is rejected.                                  *)
(***************************************************************************)
TriedCompact == last.op = "try_option" /\ last.param.is_compact

\* what the attempt read as the option's name
TriedName == next_data(last.pre, {}, TRUE).data

TriedAlias == first_alias(TriedName.s, last.param.aliases)

C15_CompactOptionPushesRest ==
    (TriedCompact /\ IsStr(TriedName))
    => IF TriedAlias # 0
       THEN last.data = StrVal(SubSeq(TriedName.s, Len(last.param.aliases[TriedAlias]) + 1,
                                      Len(TriedName.s)))
       ELSE sub.exc = "ParamsUnmatched"

(***************************************************************************)
(* C16.  With fuzzy matching on, a head that does not match and is close   *)
(* enough to a header text raises FuzzyMatchSuccess with the input as      *)
(* source and the header text as target, and the header is not reported as *)
(* matched; a head close to no header text raises InvalidParam.            *)
(***************************************************************************)
HeaderTexts(header) ==
    IF header.origin.prefixes = <<>> THEN {header.origin.command}
    ELSE { header.origin.prefixes[i] \o header.origin.command :
             i \in 1..Len(header.origin.prefixes) }

HeadMissed == hdr.pc = "done" /\ hdr.fuzzy /\ hdr.exc # ""

C16_FuzzyHeader ==
    HeadMissed
    => IF \E ht \in HeaderTexts(hdr.header) : levenshtein_close(hdr.tokens[1], ht)
       THEN /\ hdr.exc = "FuzzyMatchSuccess"
            /\ hdr.msg.source = hdr.tokens[1]
            /\ hdr.msg.target \in HeaderTexts(hdr.header)
            /\ levenshtein_close(hdr.tokens[1], hdr.msg.target)
            /\ ~hdr.head_matched
       ELSE hdr.exc \in {"InvalidParam", "ParamsUnmatched"}

(***************************************************************************)
(* C17.  The shortcut g of the command git with the arguments {0} and      *)
(* --verbose, invoked as "g status", rewrites the token stream to          *)
(* git status --verbose.                                                   *)
(***************************************************************************)
\* the shortcut g with the arguments <<slot, --verbose>> was found by its key and has
\* rewritten the stream
Invoked(slot) ==
    /\ sc.op = "rewrite"
    /\ sc.found.key = <<"g">>
    /\ sc.input[1] = StrVal(<<"g">>)
    /\ Len(sc.input) >= 2
    /\ sc.found.args.fuzzy
    /\ sc.found.args.command = <<"g", "i", "t">>
    /\ sc.found.args.args = <<StrVal(slot), Verbose>>

Sides(left, slot, right) ==
    (IF strip(left) # <<>> THEN <<StrVal(strip(left))>> ELSE <<>>)
    \o <<slot>>
    \o (IF strip(right) # <<>> THEN <<StrVal(strip(right))>> ELSE <<>>)

UnitFilled(unit, data) ==
    IF ~IsStr(unit) \/ findall(unit.s, INDEX_SLOT) = <<>> THEN <<unit>>
    ELSE IF Head(findall(unit.s, INDEX_SLOT)) >= Len(data) THEN <<unit>>
    ELSE IF fullmatch(unit.s, INDEX_SLOT) THEN <<data[slot_index(unit.s, INDEX_SLOT) + 1]>>
    ELSE IF IsStr(data[Head(findall(unit.s, INDEX_SLOT)) + 1])
    THEN <<StrVal(replace(unit.s, slot_text(Head(findall(unit.s, INDEX_SLOT)), INDEX_SLOT),
                          data[Head(findall(unit.s, INDEX_SLOT)) + 1].s))>>
    ELSE Sides(SubSeq(unit.s, 1,
                      find_sub(unit.s, slot_text(Head(findall(unit.s, INDEX_SLOT)), INDEX_SLOT), 1)
                      - 1),
               data[Head(findall(unit.s, INDEX_SLOT)) + 1],
               SubSeq(unit.s,
                      find_sub(unit.s, slot_text(Head(findall(unit.s, INDEX_SLOT)), INDEX_SLOT), 1)
                      + 4, Len(unit.s)))

RECURSIVE UnitsFilled(_, _)
UnitsFilled(units, data) ==
    IF units = <<>> THEN <<>>
    ELSE UnitFilled(Head(units), data) \o UnitsFilled(Tail(units), data)

\* the indexes of the data items that a slot of the units uses
SlotsUsed(units, data) ==
    { n \in 0..Len(data) - 1 :
        \E i \in 1..Len(units) :
            IsStr(units[i]) /\ \E k \in 1..Len(findall(units[i].s, INDEX_SLOT)) :
                                   findall(units[i].s, INDEX_SLOT)[k] = n }

\* the data slots were filled and no group slot was
DataFilled ==
    /\ sc.op = "rewrite"
    /\ sc.found.mat = <<>>
    /\ sc.found.data # <<>>
    /\ sc.found.args.fuzzy

C18_SlotsKeepOtherUnits ==
    DataFilled
    => /\ sc.err = ""
       /\ sc.raw_data = UnitsFilled(sc.pre, sc.found.data)
                        \o unused(sc.found.data, SlotsUsed(sc.pre, sc.found.data), 0)

(***************************************************************************)
(* C19.  A fuzzy shortcut matched by a prefix of the query returns the     *)
(* rest of the query, when there is one, followed by the input tokens not  *)
(* yet read: the part matched and the data returned make up the input.  A  *)
(* shortcut that is not fuzzy is found only when the whole query matches.  *)
(***************************************************************************)
ShortcutFound == sc.op \in {"find", "rewrite"} /\ sc.found.ok

\* the query is the first j tokens of the input, joined by the separator
QueryOf(j) ==
    /\ \A i \in 1..j : IsStr(sc.input[i])
    /\ sc.found.query = join([i \in 1..j |-> sc.input[i].s], sc.target.separators[1])

PrefixMatched == ShortcutFound /\ sc.found.args.fuzzy /\ sc.found.mat # <<>>

C19_FuzzyTail ==
    /\ PrefixMatched
       => \E j \in 1..Len(sc.input) :
             /\ QueryOf(j)
             /\ sc.found.mat.span <= Len(sc.found.query)
             /\ re_match(sc.found.key, sc.found.query) = sc.found.mat.span
             /\ sc.found.data =
                   (IF sc.found.mat.span < Len(sc.found.query)
                    THEN <<StrVal(SubSeq(sc.found.query, sc.found.mat.span + 1,
                                         Len(sc.found.query)))>>
                    ELSE <<>>)
                   \o SubSeq(sc.input, j + 1, Len(sc.input))
    /\ (ShortcutFound /\ ~sc.found.args.fuzzy)
       => \/ sc.found.query = sc.found.key
          \/ re_match(sc.found.key, sc.found.query) = Len(sc.found.query)

C19_Witness ==
    /\ PrefixMatched
    /\ sc.found.mat.span < Len(sc.found.query)
    /\ Len(sc.found.data) = 2
    /\ sc.found.data[2] = sc.input[2]

(***************************************************************************)
(* C20.  After shortcut(key, delete=True) the shortcut added under that    *)
(* key is in neither table: get_shortcut does not list it and              *)
(* find_shortcut does not match it, however it was added.                  *)
(***************************************************************************)
\* the key the shortcut is listed under and the keys it is matched by
DisplayKey(key, source) == IF source.humanized # <<>> THEN source.humanized ELSE key

MatchKeys(target, key, source) ==
    IF source.prefix /\ target.prefixes # <<>>
    THEN { re_escape(target.prefixes[i]) \o key : i \in 1..Len(target.prefixes) }
    ELSE {key}

Deleted == sc.pc = "tables" /\ sc.op = "delete"

C20_DeleteRemovesBoth ==
    Deleted
    => /\ DisplayKey(sc.key, sc.source) \notin dict_keys(get_shortcut(ScTables))
       /\ MatchKeys(sc.target, sc.key, sc.source) \cap dict_keys(sc.match) = {}
       /\ \A data \in ShortInputs :
             ~ /\ find_shortcut(ScTables, sc.target, data).ok
               /\ find_shortcut(ScTables, sc.target, data).key
                     \in MatchKeys(sc.target, sc.key, sc.source)

(***************************************************************************)
(* C21.  register raises ExceedMaxCount exactly when current_count has     *)
(* reached max_count and then leaves the commands, the Argv table, the     *)
(* analyser table and current_count as they were; current_count never      *)
(* exceeds max_count.                                                      *)
(***************************************************************************)
C21_MaxCount ==
    /\ mgr.current_count <= max_count
    /\ mgr.op = "register"
       => (mgr.err = "ExceedMaxCount" <=> mgr.pre.current_count >= max_count)
    /\ mgr.err = "ExceedMaxCount" => Registry(mgr) = mgr.pre

C21_Witness ==
    /\ mgr.op = "register"
    /\ mgr.err = "ExceedMaxCount"
    /\ mgr.current_count = max_count
    /\ Len(mgr.commands) = max_count

(***************************************************************************)
(* C22.  When the Args of an option are analysed without an exception,     *)
(* every keyword-only arg that is not optional and has no default is in    *)
(* the result, whatever keys the command line gives and however often.     *)
(***************************************************************************)
\* the option whose occurrence the last step stored
OccOption == CHOOSE o \in 1..Len(options) : options[o].dest = prs.occ[1].dest

\* the last step analysed the Args of an option with keyword-only args and returned
KeywordReturned ==
    /\ prs.exc = "" /\ prs.occ # <<>>
    /\ options[OccOption].args.keyword_only # <<>>

C22_KeywordOnlyPresent ==
    KeywordReturned
    => \A i \in 1..Len(options[OccOption].args.keyword_only) :
          (/\ ~options[OccOption].args.keyword_only[i].optional
           /\ options[OccOption].args.keyword_only[i].default = EmptyVal)
          => options[OccOption].args.keyword_only[i].name \in DOMAIN prs.occ[1].res.args

(***************************************************************************)
(* C23.  A variadic positional arg that collects no value: with the flag   *)
(* "+" ArgumentMissing is raised and with the flag "*" the result is the   *)
(* empty tuple (a MultiVar has no other flag, which leaves no case for the *)
(* default).                                                               *)
(***************************************************************************)
\* the variadic positional slots of the options, by the name of the arg
VarPosSlots ==
    UNION { Range(options[o].args.vars_positional) : o \in 1..Len(options) }
VarPosSlot(name) == CHOOSE a \in VarPosSlots : a.name = name

\* the slots the last step left without a value
EmptySlots == { prs.log[i].name : i \in { j \in 1..Len(prs.log) : prs.log[j].kind = "empty" } }

\* what the analysis of the option gave the slot, once it returned
SlotResult(name) == prs.occ[1].res.args[name]
SlotReturned(name) ==
    /\ prs.exc = "" /\ prs.occ # <<>>
    /\ name \in DOMAIN prs.occ[1].res.args

C23_EmptyByFlag ==
    \A name \in EmptySlots :
        IF VarPosSlot(name).flag = "+" THEN prs.exc = "ArgumentMissing"
        ELSE prs.exc = "" => (SlotReturned(name) /\ SlotResult(name) = TupleVal(<<>>))

\* C23, amended.  A variadic positional arg that collects no value: if it
\* has a default, the result is the tuple of the default's items when the
\* default is iterable and the empty tuple when it is not, whatever the flag;
\* without a default the flag "*" gives the empty tuple and the flag "+"
\* raises ArgumentMissing.
C23_EmptyByDefault ==
    \A name \in EmptySlots :
        IF VarPosSlot(name).default # EmptyVal
        THEN prs.exc = ""
             => /\ SlotReturned(name)
                /\ SlotResult(name) =
                       TupleVal(IF VarPosSlot(name).default.t \in {"list", "tuple", "dict", "str"}
                                THEN tuple(VarPosSlot(name).default) ELSE <<>>)
        ELSE IF VarPosSlot(name).flag = "*"
        THEN prs.exc = "" => (SlotReturned(name) /\ SlotResult(name) = TupleVal(<<>>))
        ELSE prs.exc = "ArgumentMissing"

\* one step left a "*" slot empty, used the defaults of a "+" and of a "*" slot and returned
C23_Witness ==
    /\ prs.exc = "" /\ prs.occ # <<>>
    /\ {<<"s">>, <<"t">>, <<"i">>, <<"u">>} \subseteq EmptySlots
    /\ SlotResult(<<"s">>) = TupleVal(<<>>)
    /\ SlotResult(<<"t">>) = TupleVal(<<IntVal(7)>>)
    /\ SlotResult(<<"i">>) = TupleVal(<<>>)
    /\ SlotResult(<<"u">>) = TupleVal(<<IntVal(8)>>)

(***************************************************************************)
(* C24.  Tokenization round-trips: the tokens the stream releases, joined  *)
(* with " ", are the text the stream was built from once the quotes are    *)
(* taken out and the whitespace around the tokens is reduced to one space  *)
(* between them; no token is empty.                                        *)
(***************************************************************************)
\* a text without its quotes
Unquoted(text) == SelectSeq(text, LAMBDA c : c \notin Quotes)

\* a text with each run of whitespace reduced to one space, none at the end
RECURSIVE Squeezed(_)
Squeezed(text) ==
    IF text = <<>> THEN <<>>
    ELSE IF Head(text) \in Spaces
    THEN (IF Squeezed(lstrip(text)) = <<>> THEN <<>> ELSE <<" ">> \o Squeezed(lstrip(text)))
    ELSE <<Head(text)>> \o Squeezed(Tail(text))

Plain(text) == lstrip(Squeezed(Unquoted(text)))

\* " ".join of the released data
Joined(released) == join([i \in 1..Len(released) |-> released[i].s], " ")

C24_RoundTrip ==
    spl.op = "release"
    => /\ \A i \in 1..Len(spl.result) : spl.result[i].s # <<>>
       /\ Plain(Joined(spl.released)) = Plain(spl.text)

(***************************************************************************)
(* C25.  Splitting honours quotes and escapes: split and split_once give   *)
(* what a scan gives in which an unescaped quote opens a region, the same  *)
(* unescaped quote closes it, no separator inside a region splits, and a   *)
(* quote that follows a backslash is a character of the token that neither *)
(* opens nor closes a region.                                              *)
(***************************************************************************)
RECURSIVE honoured_scan(_, _, _, _, _, _)
honoured_scan(text, separates, i, quotation, cache, result) ==
    IF i > Len(text)
    THEN (IF cache # <<>> THEN Append(result, cache) ELSE result)
    ELSE IF text[i] \in Quotes /\ i > 1 /\ text[i - 1] = "\\"
    THEN honoured_scan(text, separates, i + 1, quotation, Append(cache, text[i]), result)
    ELSE IF text[i] \in Quotes
    THEN honoured_scan(text, separates, i + 1,
                       IF quotation = "" THEN text[i]
                       ELSE IF text[i] = quotation THEN "" ELSE quotation,
                       cache, result)
    ELSE IF text[i] \in {"\n", "\r"} \/ (quotation = "" /\ text[i] \in separates /\ cache # <<>>)
    THEN honoured_scan(text, separates, i + 1, quotation, <<>>, Append(result, cache))
    ELSE IF text[i] # "\\" /\ (text[i] \notin separates \/ quotation # "")
    THEN honoured_scan(text, separates, i + 1, quotation, Append(cache, text[i]), result)
    ELSE honoured_scan(text, separates, i + 1, quotation, cache, result)

\* the end of the first piece: the first separator outside the regions
RECURSIVE honoured_once(_, _, _, _)
honoured_once(text, separates, i, quotation) ==
    IF i > Len(text) THEN i
    ELSE IF text[i] \in Quotes /\ ~(i > 1 /\ text[i - 1] = "\\")
    THEN honoured_once(text, separates, i + 1,
                       IF quotation = "" THEN text[i]
                       ELSE IF text[i] = quotation THEN "" ELSE quotation)
    ELSE IF text[i] \in separates /\ quotation = "" THEN i
    ELSE honoured_once(text, separates, i + 1, quotation)

C25_QuotesHonoured ==
    spl.op = "split"
    => /\ spl.result = honoured_scan(spl.text, spl.separates, 1, "", <<>>, <<>>)
       /\ Len(spl.once[1]) = honoured_once(spl.text, spl.separates, 1, "") - 1

(***************************************************************************)
(* C26.  When a completion trigger fires under comp_ctx, handle_completion *)
(* raises PauseTriggered with the prompt list; without comp_ctx it sends   *)
(* the prompts to the output sink and returns a result that is not         *)
(* matched.                                                                *)
(***************************************************************************)
Paused == cmp.exc = "PauseTriggered" /\ cmp.payload = cmp.res /\ ~cmp.returned
SentAndFailed ==
    /\ cmp.exc = "" /\ cmp.returned /\ ~cmp.matched
    /\ cmp.sent # <<>> /\ cmp.sent = prompt_texts(cmp.res)

C26_PauseOrSend ==
    cmp.op = "handle_completion" => IF cmp.ctx THEN Paused ELSE SentAndFailed

\* C26, amended.  When a completion trigger fires and the prompt list is not
\* empty, handle_completion raises PauseTriggered with the prompt list under
\* comp_ctx and otherwise sends the prompts to the output sink and returns a
\* result that is not matched; when the prompt list is empty it raises nothing
\* and sends nothing, with or without comp_ctx, and returns a result that is
\* not matched.
C26_PauseOrSendPrompts ==
    cmp.op = "handle_completion"
    => IF cmp.res # <<>> THEN (IF cmp.ctx THEN Paused ELSE SentAndFailed)
       ELSE cmp.exc = "" /\ cmp.sent = <<>> /\ cmp.returned /\ ~cmp.matched

\* under comp_ctx a trigger that matches no parameter gave no prompt, and the
\* completion returned instead of pausing
C26_Witness ==
    /\ cmp.op = "handle_completion" /\ cmp.ctx
    /\ cmp.trigger = <<"z">> /\ cmp.res = <<>>
    /\ cmp.returned /\ ~cmp.matched

(***************************************************************************)
(* C27.  A soft keyword of the context, option or subcommand, is           *)
(* dispatched (the option entered, the context switched) only when the     *)
(* scope is satisfied; while the scope is unsatisfied the turn of the loop *)
(* that reads it forwards it to the current track, and neither switches    *)
(* the context nor returns a panic.  The scope is the mix of the           *)
(* subcommand, or the track of the option the pointer is on.               *)
(***************************************************************************)
\* the last turn of the loop read a soft keyword
SoftKeywordRead == sis.pc # "idle" /\ sis.ev.soft /\ sis.ev.kind # "none"

ScopeUnsatisfied == IF sis.ev.pointer = "option" THEN ~sis.ev.track ELSE ~sis.ev.mix

C27_SoftKeyword ==
    SoftKeywordRead
    => /\ sis.ev.kind \in {"switch", "enter"} => ~ScopeUnsatisfied
       /\ ScopeUnsatisfied => sis.ev.kind = "forward"

(***************************************************************************)
(* C28.  Used from two threads, the cache stays consistent: whenever no    *)
(* call is under way the cache holds at most max_size entries and the      *)
(* cache and the record table hold the same keys, and no delete fails      *)
(* after its own test of the key has passed.                               *)
(***************************************************************************)
Quiet == \A t \in Threads : lru.threads[t].pc \in {"idle", "done"}

C28_ThreadsConsistent ==
    lru.op = "shared"
    => /\ Quiet => /\ Len(lru.o.cache) <= lru.o.max_size
                   /\ dict_keys(lru.o.cache) = lru.o.record
       /\ \A t \in Threads :
             ~(lru.threads[t].op = "delete_check" /\ lru.threads[t].late)

(***************************************************************************)
(* C29.  With max_size > 0, after any sequence of set, get and delete the  *)
(* cache holds at most max_size entries; a set of a new key stores it as   *)
(* the most recently used entry and evicts the least recently used one     *)
(* exactly when the cache overflows; get moves the entry to the most       *)
(* recently used end; set on a key already present changes nothing.        *)
(***************************************************************************)
\* the cache after a set of a new key, as the claim has it
SetExpected(cache, max_size, key, value) ==
    IF Len(cache) + 1 > max_size THEN Tail(dict_set(cache, key, value))
    ELSE dict_set(cache, key, value)

C29_LruSemantics ==
    /\ lru.op \in {"new", "set", "get", "delete"} => Len(lru.o.cache) <= lru.o.max_size
    /\ (lru.op = "set" /\ dict_has(lru.pre.cache, lru.key)) => lru.o.cache = lru.pre.cache
    /\ (lru.op = "set" /\ ~dict_has(lru.pre.cache, lru.key))
       => /\ lru.err = ""
          /\ lru.o.cache = SetExpected(lru.pre.cache, lru.o.max_size, lru.key, lru.value)
    /\ (lru.op = "get" /\ dict_has(lru.pre.cache, lru.key))
       => /\ lru.ret = dict_get(lru.pre.cache, lru.key)
          /\ lru.o.cache = move_to_end(lru.pre.cache, lru.key)

(***************************************************************************)
(* C30.  The set_default behavior writes its default at its path only when *)
(* the result has no value at that path; a value that was parsed, a falsy  *)
(* one included, is left as it is; without a path it raises                *)
(* BehaveCancelled and changes nothing.                                    *)
(***************************************************************************)
Operated == bhv.op = "operate"
HasDefault == bhv.self._default # MISSING \/ bhv.self._default_factory # MISSING
TheDefault ==
    IF bhv.self._default # MISSING THEN bhv.self._default ELSE bhv.self._default_factory

C30_DefaultOnlyWhenAbsent ==
    Operated
    => /\ bhv.self.path = <<>> => (bhv.exc = "BehaveCancelled" /\ bhv.interface = bhv.pre)
       /\ (bhv.self.path # <<>> /\ bhv.self.path \in DOMAIN bhv.pre)
          => bhv.interface = bhv.pre
       /\ (bhv.self.path # <<>> /\ bhv.self.path \notin DOMAIN bhv.pre /\ HasDefault)
          => bhv.interface = update(bhv.pre, bhv.self.path, TheDefault)

(***************************************************************************)
(* C31.  After every register, delete and update, current_count is the     *)
(* number of commands in the name table, and the Argv table and the        *)
(* analyser table hold exactly the hashes of those commands.               *)
(***************************************************************************)
\* the hashes of the commands the name table holds
HeldHashes == { mgr.commands[i].value.hash : i \in 1..Len(mgr.commands) }

C31_TablesAgree ==
    /\ mgr.current_count = Len(mgr.commands)
    /\ mgr.argv = HeldHashes
    /\ mgr.analysers = HeldHashes

(***************************************************************************)
(* C32.  When a with update(command) block has ended, by the end of its    *)
(* body or by an exception of its body, the command is in the Argv table   *)
(* and the analyser table under its hash and in the name table, and        *)
(* current_count is what it was before the block.                          *)
(***************************************************************************)
\* the block was entered and has ended
BlockEnded == mgr.op = "update" /\ mgr.err \in {"", "BodyError"}

C32_RegisteredAgain ==
    BlockEnded
    => /\ mgr.command.hash \in mgr.argv
       /\ mgr.command.hash \in mgr.analysers
       /\ dict_has(mgr.commands, mgr.command.name)
       /\ dict_get(mgr.commands, mgr.command.name) = mgr.command
       /\ mgr.current_count = mgr.pre.current_count

(***************************************************************************)
(* C33.  A turn of analyse_compact_params that failed with InvalidParam    *)
(* and went on to the next param leaves options_result and                 *)
(* subcommands_result as they were before the turn, for an option and for  *)
(* a subcommand.                                                           *)
(***************************************************************************)
\* the last turn caught InvalidParam and restored the stream
AttemptFailed == cpt.ev.kind = "failed"

C33_FailedAttemptKeepsResults ==
    AttemptFailed
    => /\ cpt.options_result = cpt.ev.options_result
       /\ cpt.subcommands_result = cpt.ev.subcommands_result

(***************************************************************************)
(* C34.  When loopflow returns with the pointer on an option whose track   *)
(* is not satisfied, that track has been reset: no fragment of it is       *)
(* assigned.                                                               *)
(***************************************************************************)
\* the pointer of the top traverse is on an option
PointerOnOption ==
    /\ sis.traverses # <<>>
    /\ top(sis).ref # <<>>
    /\ top(sis).ref[Len(top(sis).ref)][1] = "option"

\* the track of the option the pointer is on
PointerTrack == top(sis).mix[top(sis).ref[Len(top(sis).ref)][2]]

ReturnedInUnsatisfiedOption ==
    sis.pc = "returned" /\ PointerOnOption /\ ~track_satisfied(PointerTrack)

C34_OptionAtomic == ReturnedInUnsatisfiedOption => PointerTrack = track_reset(PointerTrack)

(***************************************************************************)
(* C35.  When loopflow returns option_duplicated, the keyword is still in  *)
(* the buffer and the pointer and the option_traverses of the traverse are *)
(* what they were when the token was read.                                 *)
(***************************************************************************)
DuplicateRejected == sis.pc = "returned" /\ sis.desc = "panic@option-process#duplicated"

C35_DuplicateLeavesNoTrace ==
    DuplicateRejected
    => /\ sis.runes = sis.ev.runes
       /\ sis.ahead = sis.ev.ahead
       /\ top(sis).ref = sis.ev.ref
       /\ top(sis).option_traverses = sis.ev.option_traverses

(***************************************************************************)
(* C36.  loopflow terminates: a loop that was entered returns, for every   *)
(* buffer and every grammar.                                               *)
(***************************************************************************)
C36_Terminates == (sis.pc = "loop") ~> (sis.pc = "returned")

(***************************************************************************)
(* C37.  The pointer on an option and the token the keyword of an option   *)
(* of the scope: when the track of the current option is satisfied, the    *)
(* option is completed, the pointer goes back to the subcommand and the    *)
(* keyword stays in the buffer for the next turn; when it is not satisfied *)
(* and the keyword is hard, loopflow returns                               *)
(* option_switch_prohibited_direction and the track of the current option  *)
(* is reset.                                                               *)
(***************************************************************************)
\* the last turn read, in the pointer of an option, the keyword of an option
OptionKeywordInOption ==
    /\ sis.pc # "idle"
    /\ sis.ev.pointer = "option"
    /\ sis.ev.token \in {SoftOpt, FlagOpt, HardOpt, PairOpt}

\* the current option is left for the subcommand, the token is not consumed
LeftForSubcommand ==
    /\ sis.pc = "loop"
    /\ top(sis).ref = ref_parent(sis.ev.ref)
    /\ top(sis).option_traverses[Len(top(sis).option_traverses)].completed
    /\ sis.runes = sis.ev.runes
    /\ sis.ahead = sis.ev.ahead

ProhibitedDirection ==
    /\ sis.pc = "returned"
    /\ sis.desc = "panic@option-switch#prohibited-direction"
    /\ top(sis).mix[sis.ev.pointer_val] = track_reset(top(sis).mix[sis.ev.pointer_val])

C37_OptionToOption ==
    OptionKeywordInOption
    => /\ sis.ev.track => LeftForSubcommand
       /\ (~sis.ev.track /\ ~sis.ev.soft) => ProhibitedDirection

(***************************************************************************)
(* C38.  After every add and reset_namespace the options of the command    *)
(* are the options the user gave or added, each one once, followed by the  *)
(* builtin options the namespace of the command enables.                   *)
(***************************************************************************)
\* the builtin options a namespace enables, in the order they are appended
EnabledBuiltins(ns) ==
    SelectSeq(<<"help", "shortcut", "completion">>, LAMBDA name : name \notin ns)

\* the first options of the command, those before the builtin ones
UserPart ==
    SubSeq(alc.options, 1, Len(alc.options) - Len(EnabledBuiltins(alc.namespace)))

C38_UserOptionsKept ==
    alc.op # "none"
    => /\ Len(alc.options) = Cardinality(alc.user) + Len(EnabledBuiltins(alc.namespace))
       /\ { UserPart[i] : i \in 1..Len(UserPart) } = alc.user
       /\ SubSeq(alc.options, Len(UserPart) + 1, Len(alc.options))
             = EnabledBuiltins(alc.namespace)


(***************************************************************************)
(* C39.  size() equals the number of entries in the cache after any        *)
(* sequence of set, delete, clear and expiry updates.                      *)
(***************************************************************************)
LruUsed == lru.op \in {"new", "set", "get", "delete", "clear", "update", "update_all"}

C39_SizeIsLen == LruUsed => lru.o.size = Len(lru.o.cache)

(***************************************************************************)
(* C40.  set(key, value) with a key that is not in the cache and           *)
(* max_size >= 1 never raises and leaves the key in the cache with that    *)
(* value and with a record entry, after any sequence of set, get, delete   *)
(* and clear before it.                                                    *)
(***************************************************************************)
SetOfNewKey ==
    /\ lru.op = "set" /\ lru.pre.max_size >= 1
    /\ ~dict_has(lru.pre.cache, lru.key)

C40_SetStores ==
    SetOfNewKey
    => /\ lru.err = ""
       /\ dict_has(lru.o.cache, lru.key)
       /\ dict_get(lru.o.cache, lru.key) = lru.value
       /\ lru.key \in lru.o.record

====
